---- MODULE Spec2Model ----
(***************************************************************************)
(* Skill-progress engine, adaptive roadmap filter, roadmap flow of         *)
(* handle_query and deep_merge of the model-dicobuddy service.             *)
(*                                                                         *)
(* Python values are represented as tagged records: a dict is              *)
(* [t |-> "map", m |-> function], None is [t |-> "null"], a str is         *)
(* [t |-> "str", s |-> ...], a float/int is [t |-> "num", v |-> rational], *)
(* a list is [t |-> "list", l |-> sequence].  A rational is [n, d] in      *)
(* lowest terms with d > 0, so floats are compared exactly.  The ordered   *)
(* dict platform_data.course_progress is a sequence of <<key, value>>      *)
(* pairs in insertion order (its iteration order is observable).           *)
(***************************************************************************)
EXTENDS Integers, Sequences, FiniteSets, TLC

VARIABLES
    roadmap,        \* the roadmap argument of the calculator and the filter
    course_progress,\* profile.platform_data.course_progress, raw, ordered
    thresholds,     \* the thresholds argument of the calculator
    skills_status,  \* the skills_status computed by the calculator, or the
                    \* skill_status argument of the filter
    filtered,       \* the list returned by filter_roadmap_for_user
    profile,        \* the stored profile (without platform_data)
    response,       \* what handle_query returned for the last request
    last_op,        \* the operation that produced the current state
    base, overlay, third, \* arguments of deep_merge
    merged,         \* results of deep_merge
    _kb, _index, _model, \* the module globals of kb_utils.py
    _model_cache,   \* the module global of embeddings_utils.py
    artifacts,      \* the artifacts on disk that load: kb, index, model
    kb_query,       \* the arguments of the last query_kb_for_subskill call,
                    \* with what the index search returned for it
    kb_hits,        \* what the last query_kb_for_subskill call returned
    base_roadmap,   \* what generate_base_roadmap returned
    _runtime,       \* runtime.py: the keys of the module's _runtime dict
    _lock,          \* runtime.py: the thread that holds _lock, or 0
    pc,             \* thread -> where it is in load_runtime, or in
                    \* query_kb_for_subskill
    calls,          \* thread -> the calls it has made
    returned,       \* thread -> what its last call returned
    loads,          \* resource -> how often it has been loaded
    ROADMAP_DATA,   \* roadmap_json_engine.py: the module's ROADMAP_DATA
    _is_ready,      \* main.py: the readiness flag
    _warmup_lock,   \* main.py: 1 while the warmup thread holds the lock
    warmup,         \* where the warmup thread is in background_warmup
    chat,           \* request -> where it is in chat(), its waits, its answer
    ready_answers   \* the status codes GET /ready has answered, in order

kb_vars == <<_kb, _index, _model, _model_cache, artifacts, kb_query, kb_hits,
             base_roadmap>>

rt_vars == <<_runtime, _lock, pc, calls, returned, loads>>

svc_vars == <<_is_ready, _warmup_lock, warmup, chat, ready_answers>>

vars == <<roadmap, course_progress, thresholds, skills_status, filtered,
          profile, response, last_op, base, overlay, third, merged, kb_vars,
          rt_vars, ROADMAP_DATA, svc_vars>>

(***************************************************************************)
(* Bounds of the model                                                     *)
(***************************************************************************)
MaxMapped == 3      \* mapped course ids of one subskill, all tiers together
MaxEntries == 2     \* entries of platform_data.course_progress

(***************************************************************************)
(* Python values                                                           *)
(***************************************************************************)
JNull == [t |-> "null"]
JStr(x) == [t |-> "str", s |-> x]
JNum(r) == [t |-> "num", v |-> r]
JList(x) == [t |-> "list", l |-> x]
JMap(f) == [t |-> "map", m |-> f]
JBool(b) == [t |-> "bool", b |-> b]
NotRun == [t |-> "notrun"]
Raised == [t |-> "raise"]

EmptyMap == [k \in {} |-> JNull]

\* the tiers of a subskill of the canonical roadmap
TierContent ==
    JMap([beginner |-> JStr("basics"), intermediate |-> JStr("practice"),
          advanced |-> JStr("mastery")])

\* a subskill of the canonical roadmap
RoadmapSubskill(sid, b, i, a) ==
    JMap([ id |-> JStr(sid),
           name |-> JStr("Sub"),
           levels |-> TierContent,
           mapped_courses |->
               JMap([beginner |-> JList(b), intermediate |-> JList(i),
                     advanced |-> JList(a)]) ])

\* what json.load(f) reads from roadmap/roadmaps.json at import
roadmaps_json ==
    << JMap([ job_role |-> JStr("Android Developer"),
              version |-> JStr("1.0"),
              description |-> JStr("android"),
              subskills |-> JList(<< RoadmapSubskill("A1", <<2>>, <<2>>, <<1>>),
                                     RoadmapSubskill("A2", <<1>>, <<2>>, <<3>>) >>) ]),
       JMap([ job_role |-> JStr("Front-End Web Developer"),
              version |-> JStr("1.0"),
              description |-> JStr("front-end"),
              subskills |-> JList(<< RoadmapSubskill("F1", <<1>>, <<1, 2>>, <<2>>),
                                     RoadmapSubskill("F2", <<2>>, <<>>, <<>>) >>) ]) >>

\* ROADMAP_DATA as the import of roadmap_json_engine.py leaves it
DataIdle == ROADMAP_DATA = roadmaps_json

\* the service state of a process that main.py does not run in
SvcIdle ==
    /\ _is_ready = FALSE /\ _warmup_lock = 0 /\ warmup = "idle"
    /\ chat = <<>> /\ ready_answers = <<>>

\* the runtime state of a process that never calls load_runtime
RtIdle ==
    /\ _runtime = {} /\ _lock = 0
    /\ pc = <<>> /\ calls = <<>> /\ returned = <<>> /\ loads = <<>>

\* the retrieval state of a process that never touches kb_utils.py
KbIdle ==
    /\ _kb = JNull /\ _index = JNull /\ _model = JNull
    /\ _model_cache = JNull
    /\ artifacts = {}
    /\ kb_query = NotRun /\ kb_hits = NotRun /\ base_roadmap = NotRun

isdict(x) == x.t = "map"

\* dict.get(k, default)
Get(d, k, default) == IF k \in DOMAIN d.m THEN d.m[k] ELSE default

\* Python truthiness of a value
Truthy(x) ==
    CASE x.t = "null" -> FALSE
      [] x.t = "str" -> x.s # ""
      [] x.t = "num" -> x.v.n # 0
      [] x.t = "list" -> Len(x.l) > 0
      [] x.t = "map" -> DOMAIN x.m # {}
      [] x.t = "odict" -> Len(x.items) > 0
      [] x.t = "bool" -> x.b
      [] OTHER -> TRUE

(***************************************************************************)
(* Exact arithmetic on floats                                              *)
(***************************************************************************)
RECURSIVE GCD(_, _)
GCD(a, b) == IF b = 0 THEN a ELSE GCD(b, a % b)

Abs(i) == IF i < 0 THEN -i ELSE i

Rat(n, d) == LET g == GCD(Abs(n), d) IN [n |-> n \div g, d |-> d \div g]
RInt(i) == [n |-> i, d |-> 1]
RAdd(a, b) == Rat(a.n * b.d + b.n * a.d, a.d * b.d)
RDivInt(a, k) == Rat(a.n, a.d * k)
RGe(a, b) == a.n * b.d >= b.n * a.d
RGt(a, b) == a.n * b.d > b.n * a.d
RLt(a, b) == a.n * b.d < b.n * a.d

RECURSIVE RSum(_)
RSum(s) == IF s = <<>> THEN RInt(0) ELSE RAdd(Head(s), RSum(Tail(s)))

\* sum(vals) / len(vals)
Mean(s) == RDivInt(RSum(s), Len(s))

\* round(x, 2): nearest hundredth, ties to the even hundredth
Round2(r) ==
    LET N == 100 * r.n
        q == N \div r.d
        rem == N - q * r.d
        up == \/ 2 * rem > r.d
              \/ 2 * rem = r.d /\ q % 2 = 1
    IN Rat(IF up THEN q + 1 ELSE q, 100)

(***************************************************************************)
(* str.strip() and str.lower() on the strings of the model                 *)
(***************************************************************************)
strip(s) ==
    CASE s = "css " -> "css"
      [] s = "Java " -> "Java"
      [] s = " done " -> "done"
      [] s = " completed" -> "completed"
      [] s = "Intermediate " -> "Intermediate"
      [] s = " " -> ""
      [] OTHER -> s

lower(s) ==
    CASE s = "HTML" -> "html"
      [] s = "Java" -> "java"
      [] s = "Java " -> "java "
      [] s = "Advanced" -> "advanced"
      [] s = "Intermediate" -> "intermediate"
      [] s = "Beginner" -> "beginner"
      [] s = "COMPLETED" -> "completed"
      [] s = "ADVANCED" -> "advanced"
      [] s = "Course" -> "course"
      [] s = "Selesai" -> "selesai"
      [] s = "In_Progress" -> "in_progress"
      [] s = "Ongoing" -> "ongoing"
      [] s = "Android Developer" -> "android developer"
      [] s = "Front-End Web Developer" -> "front-end web developer"
      [] s = "iOS Developer" -> "ios developer"
      [] OTHER -> s

(***************************************************************************)
(* Ordered dicts (course progress by course name)                          *)
(***************************************************************************)
OKeys(od) == {od[i][1] : i \in DOMAIN od}
OIndex(od, k) == CHOOSE i \in DOMAIN od : od[i][1] = k
OGet(od, k) == od[OIndex(od, k)][2]
\* od[k] = v : overwrite in place, or append
OSet(od, k, v) ==
    IF k \in OKeys(od)
    THEN [od EXCEPT ![OIndex(od, k)] = <<k, v>>]
    ELSE Append(od, <<k, v>>)

(***************************************************************************)
(* skill_progress_engine.py                                                *)
(***************************************************************************)
Levels == <<"beginner", "intermediate", "advanced">>

COURSE_CATALOG ==
    << [course_id |-> 1, course_name |-> "HTML"],
       [course_id |-> 2, course_name |-> "css"],
       [course_id |-> 3, course_name |-> "Java "] >>

RECURSIVE build_from(_, _, _)
build_from(course_list, i, catalog) ==
    IF i > Len(course_list) THEN catalog
    ELSE LET c == course_list[i]
             cid == c.course_id
         IN build_from(course_list, i + 1,
                [k \in DOMAIN catalog \cup {cid} |->
                    IF k = cid THEN [course_name |-> c.course_name]
                    ELSE catalog[k]])

build_course_lookup(course_list) == build_from(course_list, 1, EmptyMap)

\* val < 0 -> 0.0 ; val > 100 -> 100.0
clamp(val) ==
    IF RLt(val, RInt(0)) THEN RInt(0)
    ELSE IF RGt(val, RInt(100)) THEN RInt(100)
    ELSE val

\* the fallback loop: first key, in dict order, equal to the name after
\* strip().lower() on both sides; its value is returned as float(v)
RECURSIVE fallback_from(_, _, _)
fallback_from(cp, i, name) ==
    IF i > Len(cp) THEN JNull
    ELSE IF lower(strip(cp[i][1])) = lower(strip(name)) THEN JNum(cp[i][2])
    ELSE fallback_from(cp, i + 1, name)

\* the lookup without the case-insensitive fallback
_safe_get_exact_only(course_id, cp, catalog) ==
    IF course_id \notin DOMAIN catalog THEN JNull
    ELSE LET name == catalog[course_id].course_name IN
         IF name = "" THEN JNull
         ELSE IF name \in OKeys(cp) THEN JNum(clamp(OGet(cp, name)))
         ELSE JNull

_safe_get_course_progress_by_id(course_id, cp, catalog) ==
    IF course_id \notin DOMAIN catalog THEN JNull
    ELSE LET name == catalog[course_id].course_name IN
         IF name = "" THEN JNull
         ELSE IF name \in OKeys(cp) THEN JNum(clamp(OGet(cp, name)))
         ELSE fallback_from(cp, 1, name)

DefaultThresholds == [advanced |-> 80, intermediate |-> 40, beginner |-> 1]

\* the resolved percents of the ids of one tier, in list order
RECURSIVE tier_vals(_, _, _)
tier_vals(arr, cp, catalog) ==
    IF arr = <<>> THEN <<>>
    ELSE LET p == _safe_get_course_progress_by_id(Head(arr), cp, catalog)
             rest == tier_vals(Tail(arr), cp, catalog)
         IN IF p # JNull THEN <<p.v>> \o rest ELSE rest

\* sorted(list(set(ids)))
RECURSIVE sorted_set(_)
sorted_set(S) ==
    IF S = {} THEN <<>>
    ELSE LET lo == CHOOSE x \in S : \A y \in S : x <= y
         IN <<lo>> \o sorted_set(S \ {lo})

SeqRange(s) == {s[i] : i \in DOMAIN s}

\* tier_average dividing by the number of mapped ids, resolved or not
tier_average_all(sub, cp, catalog, lvl) ==
    LET mapped == Get(sub, "mapped_courses", JMap(EmptyMap))
        arr == Get(mapped, lvl, JList(<<>>)).l
        vals == tier_vals(arr, cp, catalog)
    IN IF vals # <<>> THEN JNum(RDivInt(RSum(vals), Len(arr))) ELSE JNull

\* per_level_percent before rounding: tier -> None or the tier average
tier_average(sub, cp, catalog, lvl) ==
    LET mapped == Get(sub, "mapped_courses", JMap(EmptyMap))
        arr == Get(mapped, lvl, JList(<<>>)).l
        vals == tier_vals(arr, cp, catalog)
    IN IF vals # <<>> THEN JNum(Mean(vals)) ELSE JNull

\* average of the existing tier averages, 0.0 when there is none
overall_of(plp) ==
    LET all_vals == SelectSeq(<<plp.beginner, plp.intermediate, plp.advanced>>,
                              LAMBDA x : x # JNull)
    IN IF all_vals # <<>>
       THEN Mean([i \in DOMAIN all_vals |-> all_vals[i].v])
       ELSE RInt(0)

\* decide_try with the intermediate tier tested before the advanced tier
decide_try_swapped(plp, th) ==
    IF plp.intermediate # JNull /\ "intermediate" \notin DOMAIN th THEN "raise"
    ELSE IF /\ plp.intermediate # JNull
            /\ RGe(plp.intermediate.v, RInt(th.intermediate))
    THEN "Intermediate"
    ELSE IF plp.advanced # JNull /\ "advanced" \notin DOMAIN th THEN "raise"
    ELSE IF plp.advanced # JNull /\ RGe(plp.advanced.v, RInt(th.advanced))
    THEN "Advanced"
    ELSE IF \A l \in SeqRange(Levels) : plp[l] = JNull THEN "not_started"
    ELSE IF "beginner" \notin DOMAIN th THEN "raise"
    ELSE IF \E l \in SeqRange(Levels) :
                plp[l] # JNull /\ RGe(plp[l].v, RInt(th.beginner))
    THEN "Beginner"
    ELSE "not_started"

\* the try block of the level decision; "raise" stands for the KeyError of a
\* missing threshold
decide_try(plp, th) ==
    IF plp.advanced # JNull /\ "advanced" \notin DOMAIN th THEN "raise"
    ELSE IF plp.advanced # JNull /\ RGe(plp.advanced.v, RInt(th.advanced))
    THEN "Advanced"
    ELSE IF plp.intermediate # JNull /\ "intermediate" \notin DOMAIN th
    THEN "raise"
    ELSE IF /\ plp.intermediate # JNull
            /\ RGe(plp.intermediate.v, RInt(th.intermediate))
    THEN "Intermediate"
    ELSE IF \A l \in SeqRange(Levels) : plp[l] = JNull THEN "not_started"
    ELSE IF "beginner" \notin DOMAIN th THEN "raise"
    ELSE IF \E l \in SeqRange(Levels) :
                plp[l] # JNull /\ RGe(plp[l].v, RInt(th.beginner))
    THEN "Beginner"
    ELSE "not_started"

\* the except branch
decide_fallback(overall, th) ==
    LET inter == IF "intermediate" \in DOMAIN th THEN th.intermediate ELSE 40
    IN IF RGe(overall, RInt(inter)) THEN "Intermediate"
       ELSE IF RGt(overall, RInt(0)) THEN "Beginner"
       ELSE "not_started"

decide_level(plp, overall, th) ==
    IF decide_try(plp, th) = "raise" THEN decide_fallback(overall, th)
    ELSE decide_try(plp, th)

round_or_none(x) == IF x = JNull THEN JNull ELSE JNum(Round2(x.v))

compute_subskill_progress(sub, cp, catalog, thr) ==
    LET th == IF thr = JNull THEN DefaultThresholds ELSE thr.m
        mapped == Get(sub, "mapped_courses", JMap(EmptyMap))
        plp == [l \in SeqRange(Levels) |-> tier_average(sub, cp, catalog, l)]
        overall == overall_of(plp)
        source_ids == UNION {SeqRange(Get(mapped, l, JList(<<>>)).l) :
                                l \in SeqRange(Levels)}
    IN JMap([ name |-> Get(sub, "name", JNull),
              level |-> JStr(decide_level(plp, overall, th)),
              overall_percent |-> JNum(Round2(overall)),
              per_level_percent |->
                  JMap([l \in SeqRange(Levels) |-> round_or_none(plp[l])]),
              source_course_ids |-> JList(sorted_set(source_ids)) ])

\* float(s) for a str: surrounding blanks are allowed; "raise" for text that
\* is not a number
float_of_str(s) ==
    CASE s = "80" -> JNum(RInt(80))
      [] s = " 50 " -> JNum(RInt(50))
      [] s = "0" -> JNum(RInt(0))
      [] OTHER -> Raised

\* float(v), with the retry float(str(v).strip()); "raise" when neither works
to_float(v) ==
    CASE v.t = "num" -> v
      [] v.t = "bool" -> JNum(RInt(IF v.b THEN 1 ELSE 0))
      [] v.t = "str" -> float_of_str(v.s)
      [] OTHER -> Raised

\* the normalisation that stores 0.0 for a value that is not numeric
RECURSIVE normalize_cp_zero(_, _, _)
normalize_cp_zero(raw, i, cp) ==
    IF i > Len(raw) THEN cp
    ELSE normalize_cp_zero(raw, i + 1,
            OSet(cp, strip(raw[i][1]),
                 IF to_float(raw[i][2]) = Raised THEN RInt(0)
                 ELSE to_float(raw[i][2]).v))

\* cp[str(k).strip()] = float(v) for each raw entry, non-numeric ones skipped
RECURSIVE normalize_cp(_, _, _)
normalize_cp(raw, i, cp) ==
    IF i > Len(raw) THEN cp
    ELSE normalize_cp(raw, i + 1,
            IF to_float(raw[i][2]) = Raised THEN cp
            ELSE OSet(cp, strip(raw[i][1]), to_float(raw[i][2]).v))

RECURSIVE status_from(_, _, _, _, _, _)
status_from(subs, i, cp, catalog, thr, acc) ==
    IF i > Len(subs) THEN acc
    ELSE LET s == subs[i]
             sid == Get(s, "id", JNull)
         IN status_from(subs, i + 1, cp, catalog, thr,
                IF ~Truthy(sid) THEN acc
                ELSE [k \in DOMAIN acc \cup {sid.s} |->
                        IF k = sid.s
                        THEN compute_subskill_progress(s, cp, catalog, thr)
                        ELSE acc[k]])

\* a dict whose insertion order matters: course_progress, as <<key, value>> pairs
JODict(items) == [t |-> "odict", items |-> items]

\* the profile of a request: the stored profile and the platform's data
with_platform_data(prof, raw_cp) ==
    JMap([k \in DOMAIN prof.m \cup {"platform_data"} |->
            IF k = "platform_data"
            THEN JMap([course_progress |-> JODict(raw_cp)])
            ELSE prof.m[k]])

\* plat.get("course_progress") or {}, on a plat that is a dict; a dict of
\* course progress is always a JODict here
raw_cp_of(plat) ==
    LET given == Get(plat, "course_progress", JNull)
    IN IF Truthy(given) THEN given ELSE JODict(<<>>)

\* a calculator that returns the skills_status stored in the profile's
\* roadmap_progress when there is one
generate_skill_progress_keeping_prior(rmap, prof, course_catalog, thr) ==
    LET catalog == build_course_lookup(course_catalog)
        plat == IF isdict(prof) THEN Get(prof, "platform_data", JMap(EmptyMap))
                ELSE JMap(EmptyMap)
        rp == IF isdict(prof) THEN Get(prof, "roadmap_progress", JNull)
              ELSE JNull
        prior == IF isdict(rp) THEN Get(rp, "skills_status", JNull) ELSE JNull
        subs == IF isdict(rmap) THEN Get(rmap, "subskills", JList(<<>>)).l
                ELSE <<>>
    IN IF ~isdict(plat) THEN Raised
       ELSE IF raw_cp_of(plat).t # "odict" THEN Raised
       ELSE IF isdict(prior) /\ Truthy(prior) THEN prior
       ELSE JMap(status_from(subs, 1,
                             normalize_cp(raw_cp_of(plat).items, 1, <<>>),
                             catalog, thr, EmptyMap))

\* plat.get(...) on a plat that is no dict and raw_cp.items() on a raw_cp
\* that is no dict raise AttributeError, which nothing catches
generate_skill_progress_for_roadmap(rmap, prof, course_catalog, thr) ==
    LET catalog == build_course_lookup(course_catalog)
        plat == IF isdict(prof) THEN Get(prof, "platform_data", JMap(EmptyMap))
                ELSE JMap(EmptyMap)
        subs == IF isdict(rmap) THEN Get(rmap, "subskills", JList(<<>>)).l
                ELSE <<>>
    IN IF ~isdict(plat) THEN Raised
       ELSE IF raw_cp_of(plat).t # "odict" THEN Raised
       ELSE JMap(status_from(subs, 1,
                             normalize_cp(raw_cp_of(plat).items, 1, <<>>),
                             catalog, thr, EmptyMap))

(***************************************************************************)
(* Inputs of the engine                                                    *)
(***************************************************************************)
CourseIds == {1, 2, 3}
RawKeys == <<"HTML", "html", "css ">>
RawPercents == {-20, 100, 150}

SeqsUpTo(S, n) == UNION {[1..k -> S] : k \in 0..n}

\* the id lists of one tier, ids in ascending order (the calculator sums the
\* percents of a tier, so the order inside a tier is not observable)
TierLists ==
    {arr \in SeqsUpTo(CourseIds, MaxMapped) :
        \A i, j \in DOMAIN arr : i < j => arr[i] <= arr[j]}

MappedCourses ==
    {mc \in [SeqRange(Levels) -> TierLists] :
        Len(mc.beginner) + Len(mc.intermediate) + Len(mc.advanced) <= MaxMapped}

SubskillOf(sid, mc) ==
    JMap([ id |-> JStr(sid),
           name |-> JStr("Sub " \o sid),
           mapped_courses |-> JMap([l \in SeqRange(Levels) |-> JList(mc[l])]) ])

\* entries keyed by course name
RawEntries == {<<k, JNum(RInt(p))>> : k \in SeqRange(RawKeys), p \in RawPercents}

KeyRank(k) == CHOOSE i \in DOMAIN RawKeys : RawKeys[i] = k

\* progress keyed by the course id instead of the course name
IdKeyedProgress == << <<"1", JNum(RInt(100))>> >>

\* the raw course_progress dicts, as <<key, value>> pairs in insertion order.
\* No two keys of RawKeys are equal after strip() or match one course name
\* case-insensitively without an exact match, so the insertion order is not
\* observable and one order per key set is enumerated.
RawProgressMaps ==
    {cp \in SeqsUpTo(RawEntries, MaxEntries) :
        \A i, j \in DOMAIN cp : i < j => KeyRank(cp[i][1]) < KeyRank(cp[j][1])}
        \cup {IdKeyedProgress}

ThresholdArgs ==
    { JNull,
      JMap([advanced |-> 100, intermediate |-> 50, beginner |-> 60]),
      JMap([intermediate |-> 40, beginner |-> 1]) }

(***************************************************************************)
(* Specification of the skill progress calculator                          *)
(***************************************************************************)
InitEngine ==
    /\ roadmap \in {JMap([subskills |-> JList(<<SubskillOf("S1", mc)>>)]) :
                        mc \in MappedCourses}
    /\ course_progress \in RawProgressMaps
    /\ thresholds = NotRun
    /\ skills_status = NotRun
    /\ filtered = NotRun /\ profile = NotRun /\ response = NotRun
    /\ last_op = "init"
    /\ base = NotRun /\ overlay = NotRun /\ third = NotRun /\ merged = NotRun
    /\ KbIdle
    /\ RtIdle
    /\ DataIdle /\ SvcIdle

Evaluate ==
    /\ last_op = "init"
    /\ \E thr \in ThresholdArgs :
          /\ thresholds' = thr
          /\ skills_status' = generate_skill_progress_for_roadmap(
                  roadmap, with_platform_data(JMap(EmptyMap), course_progress),
                  COURSE_CATALOG, thr)
    /\ last_op' = "generate_skill_progress_for_roadmap"
    /\ UNCHANGED <<roadmap, course_progress, filtered, profile,
                   response, base, overlay, third, merged>>
    /\ UNCHANGED kb_vars
    /\ UNCHANGED rt_vars
    /\ UNCHANGED <<ROADMAP_DATA, svc_vars>>

NextEngine == Evaluate

SpecEngine == InitEngine /\ [][NextEngine]_vars

(***************************************************************************)
(* Properties of the skill progress calculator                             *)
(***************************************************************************)
Evaluated == last_op = "generate_skill_progress_for_roadmap"
subskill == roadmap.m.subskills.l[1]
Result == skills_status.m["S1"]
TheCatalog == build_course_lookup(COURSE_CATALOG)
TheProgress == normalize_cp(course_progress, 1, <<>>)
TheThresholds == IF thresholds = JNull THEN DefaultThresholds ELSE thresholds.m
CompleteThresholds == DOMAIN TheThresholds = SeqRange(Levels)
MappedIds(l) == subskill.m.mapped_courses.m[l].l
Reported(l) == Result.m.per_level_percent.m[l]

\* tier -> the percents of its mapped courses that resolve, in list order
ResolvedPercents ==
    LET cp == TheProgress
    IN [l \in SeqRange(Levels) |-> tier_vals(MappedIds(l), cp, TheCatalog)]

\* tier -> None, or the exact mean of the resolved percents
ExactTierMeans(resolved) ==
    [l \in SeqRange(Levels) |->
        IF resolved[l] = <<>> THEN JNull
        ELSE JNum(RDivInt(RSum(resolved[l]), Len(resolved[l])))]

\* the exact mean of the non-null tier means, 0 when there is none
ExactOverall(means) ==
    LET present == SelectSeq([i \in 1..3 |-> means[Levels[i]]],
                             LAMBDA x : x # JNull)
    IN IF present = <<>> THEN RInt(0)
       ELSE RDivInt(RSum([i \in DOMAIN present |-> present[i].v]),
                    Len(present))

AtLeast(x, bound) == x # JNull /\ RGe(x.v, RInt(bound))

IsRounding(r, x) ==
    LET diff == RAdd(r, [n |-> -x.n, d |-> x.d])
    IN /\ 100 % r.d = 0
       /\ 200 * Abs(diff.n) <= diff.d

\* C8 as stated: each tier reports the arithmetic mean of the percents of its
\* mapped courses that resolve, null when none resolves; the overall percent
\* is the mean of the non-null tier averages, 0 when every tier is null.
C8_ExactMean ==
    Evaluated =>
        \A avg \in {ExactTierMeans(ResolvedPercents)} :
           /\ \A l \in SeqRange(Levels) : Reported(l) = avg[l]
           /\ Result.m.overall_percent = JNum(ExactOverall(avg))

\* C8 amended: each tier reports the arithmetic mean of the percents of its
\* mapped courses that resolve, rounded to two decimals, and null (not 0)
\* when none resolves; the overall percent is the mean of the unrounded
\* non-null tier averages, rounded to two decimals, and 0 when every tier
\* is null.
C8_RoundedMean ==
    Evaluated =>
        \A avg \in {ExactTierMeans(ResolvedPercents)} :
           /\ \A l \in SeqRange(Levels) :
                IF avg[l] = JNull THEN Reported(l) = JNull
                ELSE /\ Reported(l).t = "num"
                     /\ IsRounding(Reported(l).v, avg[l].v)
           /\ Result.m.overall_percent.t = "num"
           /\ IsRounding(Result.m.overall_percent.v, ExactOverall(avg))
           /\ (\A l \in SeqRange(Levels) : avg[l] = JNull) =>
                Result.m.overall_percent = JNum(RInt(0))

\* a tier averages two different percents, another tier is null, and the
\* reported overall percent is a rounding of the exact mean
C8_Witness ==
    /\ Evaluated
    /\ LET resolved == ResolvedPercents
       IN /\ \E l \in SeqRange(Levels) :
                /\ Len(resolved[l]) >= 2
                /\ \E i, j \in DOMAIN resolved[l] : resolved[l][i] # resolved[l][j]
          /\ \E l \in SeqRange(Levels) : Reported(l) = JNull
          /\ Result.m.overall_percent #
                JNum(ExactOverall(ExactTierMeans(resolved)))

NameOf(cid) == TheCatalog[cid].course_name
\* some key of the progress map is the course name, exactly or after
\* trimming and lowercasing both
NameMatches(cid, keys) ==
    \E k \in keys :
        k = NameOf(cid) \/ lower(strip(k)) = lower(strip(NameOf(cid)))
ExampleMapping ==
    /\ MappedIds("beginner") = <<1>>
    /\ MappedIds("intermediate") = <<2>>
    /\ MappedIds("advanced") = <<3>>
ExampleResult ==
    /\ Reported("beginner") = JNum(RInt(100))
    /\ Reported("intermediate") = JNull
    /\ Reported("advanced") = JNull
    /\ Result.m.overall_percent = JNum(RInt(100))
    /\ Result.m.level.s = "Beginner"

InPercentRange(r) == RGe(r, RInt(0)) /\ RGe(RInt(100), r)

\* C10: every course percent the calculator uses is the stored value clamped
\* to [0, 100], on the exact-name path and on the case-insensitive path, so
\* every per-tier percent and the overall percent lie in [0, 100].
C10_Clamped ==
    Evaluated =>
        /\ \A resolved \in {ResolvedPercents} :
              \A l \in SeqRange(Levels) :
                \A i \in DOMAIN resolved[l] : InPercentRange(resolved[l][i])
        /\ \A l \in SeqRange(Levels) :
              Reported(l) # JNull => InPercentRange(Reported(l).v)
        /\ InPercentRange(Result.m.overall_percent.v)

(***************************************************************************)
(* adaptive_filter.py                                                      *)
(***************************************************************************)
\* normalize_level comparing the text as given
normalize_level_verbatim(level) ==
    IF ~Truthy(level) THEN "beginner"
    ELSE LET lv == IF isdict(level) THEN Get(level, "status", JStr(""))
                   ELSE level
         IN IF lv.t # "str" THEN "beginner"
            ELSE LET lvl == lv.s
                 IN IF lvl \in {"beginner", "intermediate", "advanced"} THEN lvl
                    ELSE IF lvl \in {"completed", "selesai", "done"}
                    THEN "advanced"
                    ELSE IF lvl \in {"in_progress", "ongoing"}
                    THEN "intermediate"
                    ELSE "beginner"

normalize_level(level) ==
    IF ~Truthy(level) THEN "beginner"
    ELSE LET lv == IF isdict(level) THEN Get(level, "status", JStr(""))
                   ELSE level
         IN IF lv.t # "str" THEN "beginner"
            ELSE LET lvl == lower(strip(lv.s))
                 IN IF lvl \in {"beginner", "intermediate", "advanced"} THEN lvl
                    ELSE IF lvl \in {"completed", "selesai", "done"}
                    THEN "advanced"
                    ELSE IF lvl \in {"in_progress", "ongoing"}
                    THEN "intermediate"
                    ELSE "beginner"

\* skill_status.get(sid, {})
status_entry(status, sid) ==
    IF sid.t = "str" /\ sid.s \in DOMAIN status.m THEN status.m[sid.s]
    ELSE JMap(EmptyMap)

\* the tier map reduced to its advanced tier
only_advanced(sub) ==
    LET levels == Get(sub, "levels", JMap(EmptyMap)).m
    IN JMap([l \in DOMAIN levels \ {"beginner", "intermediate"} |-> levels[l]])

\* dict(new_sub.get("levels", {})) without its "beginner" key
without_beginner(sub) ==
    LET levels == Get(sub, "levels", JMap(EmptyMap)).m
    IN JMap([l \in DOMAIN levels \ {"beginner"} |-> levels[l]])

\* new_sub = dict(sub); new_sub["levels"] = levels
with_levels(sub, levels) ==
    JMap([k \in DOMAIN sub.m \cup {"levels"} |->
            IF k = "levels" THEN levels ELSE sub.m[k]])

\* the loop that keeps every subskill, advanced ones included
RECURSIVE filter_keep_all(_, _, _)
filter_keep_all(subs, i, status) ==
    IF i > Len(subs) THEN <<>>
    ELSE LET sub == subs[i]
             user_level == normalize_level(
                                status_entry(status, Get(sub, "id", JNull)))
             rest == filter_keep_all(subs, i + 1, status)
         IN IF user_level = "intermediate"
            THEN <<with_levels(sub, without_beginner(sub))>> \o rest
            ELSE <<sub>> \o rest

RECURSIVE filter_from(_, _, _)
filter_from(subs, i, status) ==
    IF i > Len(subs) THEN <<>>
    ELSE LET sub == subs[i]
             user_level == normalize_level(
                                status_entry(status, Get(sub, "id", JNull)))
             rest == filter_from(subs, i + 1, status)
         IN IF user_level = "advanced" THEN rest
            ELSE IF user_level = "intermediate"
            THEN <<with_levels(sub, without_beginner(sub))>> \o rest
            ELSE <<sub>> \o rest

filter_roadmap_for_user(rmap, skill_status) ==
    IF ~Truthy(rmap) \/ "subskills" \notin DOMAIN rmap.m THEN <<>>
    ELSE filter_from(rmap.m.subskills.l, 1,
                     IF isdict(skill_status) THEN skill_status ELSE JMap(EmptyMap))

(***************************************************************************)
(* Specification of the adaptive filter                                    *)
(***************************************************************************)
MaxSubskills == 2   \* subskills of the roadmap handed to the filter

FilterSubskill(i) ==
    JMap([ id |-> JStr(<<"S1", "S2", "S3", "S4">>[i]),
           name |-> JStr("Sub"),
           levels |-> TierContent ])

LevelStrings ==
    {"beginner", "intermediate", "advanced", "Advanced", "COMPLETED",
     "selesai", " done ", "in_progress", "Ongoing", "xyz", ""}

StatusEntries ==
    {JStr(x) : x \in LevelStrings}
        \cup {JMap([status |-> JStr(x)]) : x \in LevelStrings}
        \cup {JMap([name |-> JStr("Sub"), level |-> JStr("Advanced")]),
              JMap([status |-> JNull]), JNull, JNum(RInt(3))}

\* one entry per outcome of normalize_level, and a computed entry
CoreEntries ==
    {JStr("advanced"), JStr("Ongoing"), JMap([status |-> JStr("beginner")]),
     JMap([name |-> JStr("Sub"), level |-> JStr("Advanced")])}

\* the entries each subskill id can have: every spelling for the first
\* subskill, one per outcome for the others
EntriesOf(sid) == IF sid = "S1" THEN StatusEntries ELSE CoreEntries

\* a subskill that has no tier map
BareSubskill(i) ==
    JMap([ id |-> FilterSubskill(i).m.id, name |-> JStr("Sub") ])

FilterRoadmaps ==
    {JNull, JMap(EmptyMap)}
        \cup UNION {{JMap([subskills |-> JList(subs)]) :
                        subs \in {ss \in [1..n -> {FilterSubskill(i) : i \in 1..n}
                                               \cup {BareSubskill(i) : i \in 1..n}] :
                                    \A i \in 1..n : ss[i].m.id = FilterSubskill(i).m.id}} :
                    n \in 0..MaxSubskills}

InitFilter ==
    /\ roadmap \in FilterRoadmaps
    /\ skills_status \in
          {JNull} \cup
          UNION {{JMap(f) : f \in {g \in [S -> StatusEntries \cup CoreEntries] :
                                        \A sid \in S : g[sid] \in EntriesOf(sid)}} :
                    S \in SUBSET {FilterSubskill(i).m.id.s :
                                        i \in 1..MaxSubskills}}
    /\ course_progress = <<>> /\ thresholds = JNull
    /\ filtered = NotRun /\ profile = NotRun /\ response = NotRun
    /\ last_op = "init"
    /\ base = NotRun /\ overlay = NotRun /\ third = NotRun /\ merged = NotRun
    /\ KbIdle
    /\ RtIdle
    /\ DataIdle /\ SvcIdle

Filter ==
    /\ last_op = "init"
    /\ filtered' = JList(filter_roadmap_for_user(roadmap, skills_status))
    /\ last_op' = "filter_roadmap_for_user"
    /\ UNCHANGED <<roadmap, course_progress, thresholds, skills_status,
                   profile, response, base, overlay, third, merged>>
    /\ UNCHANGED kb_vars
    /\ UNCHANGED rt_vars
    /\ UNCHANGED <<ROADMAP_DATA, svc_vars>>

NextFilter == Filter

SpecFilter == InitFilter /\ [][NextFilter]_vars

(***************************************************************************)
(* Properties of the adaptive filter                                       *)
(***************************************************************************)
Filtered == last_op = "filter_roadmap_for_user"
InputSubs ==
    IF Truthy(roadmap) /\ "subskills" \in DOMAIN roadmap.m
    THEN roadmap.m.subskills.l ELSE <<>>
InputStatus == IF isdict(skills_status) THEN skills_status ELSE JMap(EmptyMap)
LevelOfSub(sub) == normalize_level(status_entry(InputStatus, sub.m.id))

\* C4: the filter returns a subsequence of the roadmap's subskills, in
\* roadmap order, and never a subskill whose skill_status entry normalizes to
\* advanced; with S1 advanced and S2 beginner on roadmap [S1, S2] the result
\* is [S2].
C4_FilterSubsequence ==
    Filtered =>
        /\ \E pos \in [DOMAIN filtered.l -> DOMAIN InputSubs] :
              /\ \A i, j \in DOMAIN filtered.l : i < j => pos[i] < pos[j]
              /\ \A i \in DOMAIN filtered.l :
                    filtered.l[i].m.id = InputSubs[pos[i]].m.id
        /\ \A i \in DOMAIN filtered.l : LevelOfSub(filtered.l[i]) # "advanced"
        /\ ( /\ Len(InputSubs) = 2
             /\ LevelOfSub(InputSubs[1]) = "advanced"
             /\ LevelOfSub(InputSubs[2]) = "beginner" )
             => filtered.l = <<InputSubs[2]>>

\* roadmap [S1, S2] with S1 completed and S2 a beginner gives [S2]
C4_Witness ==
    /\ Filtered
    /\ Len(InputSubs) = 2
    /\ skills_status = JMap([S1 |-> JMap([status |-> JStr("COMPLETED")]),
                             S2 |-> JMap([status |-> JStr("beginner")])])
    /\ filtered.l = <<InputSubs[2]>>

\* the roadmap's subskill a returned subskill was made from
InputOf(out) == CHOOSE sub \in SeqRange(InputSubs) : sub.m.id = out.m.id
TiersOf(sub) == Get(sub, "levels", JMap(EmptyMap)).m

\* C13: a returned subskill whose normalized level is intermediate has a tier
\* map without a beginner key whose intermediate and advanced tiers are the
\* input's; a returned subskill whose level is beginner (or not recognized) is
\* identical to the input subskill
C13_TierFrame ==
    Filtered =>
        \A i \in DOMAIN filtered.l :
            \A sub \in {InputOf(filtered.l[i])} :
                LET out == filtered.l[i]
                IN /\ LevelOfSub(sub) = "intermediate" =>
                        /\ "levels" \in DOMAIN out.m
                        /\ "beginner" \notin DOMAIN out.m.levels.m
                        /\ \A l \in {"intermediate", "advanced"} :
                              /\ l \in DOMAIN out.m.levels.m <=> l \in DOMAIN TiersOf(sub)
                              /\ l \in DOMAIN TiersOf(sub) =>
                                    out.m.levels.m[l] = TiersOf(sub)[l]
                   /\ LevelOfSub(sub) = "beginner" => out = sub

\* S1 in progress loses its beginner tier, S2 with an unknown status is
\* returned as it is
C13_Witness ==
    /\ Filtered
    /\ roadmap = JMap([subskills |-> JList(<<FilterSubskill(1), FilterSubskill(2)>>)])
    /\ skills_status = JMap([S1 |-> JMap([status |-> JStr("in_progress")]),
                             S2 |-> JMap([name |-> JStr("Sub"),
                                          level |-> JStr("Advanced")])])
    /\ filtered.l[1].m.levels =
            JMap([intermediate |-> JStr("practice"), advanced |-> JStr("mastery")])
    /\ filtered.l[2] = FilterSubskill(2)

(***************************************************************************)
(* handler.py: deep_merge                                                  *)
(***************************************************************************)
\* a merge that never recurses: the overlay value always replaces
RECURSIVE deep_merge_shallow(_, _)
deep_merge_shallow(a, b) ==
    IF ~isdict(a) \/ ~isdict(b) THEN b
    ELSE JMap([k \in DOMAIN a.m \cup DOMAIN b.m |->
                IF k \in DOMAIN b.m THEN b.m[k] ELSE a.m[k]])

\* a merge that starts from an empty dict instead of a copy of the base
RECURSIVE deep_merge_from_empty(_, _)
deep_merge_from_empty(a, b) ==
    IF ~isdict(a) \/ ~isdict(b) THEN b
    ELSE JMap([k \in DOMAIN b.m |->
                IF k \in DOMAIN a.m /\ isdict(a.m[k]) /\ isdict(b.m[k])
                THEN deep_merge_from_empty(a.m[k], b.m[k])
                ELSE b.m[k]])

RECURSIVE deep_merge(_, _)
deep_merge(a, b) ==
    IF ~isdict(a) \/ ~isdict(b) THEN b
    ELSE JMap([k \in DOMAIN a.m \cup DOMAIN b.m |->
                IF k \in DOMAIN b.m
                THEN IF k \in DOMAIN a.m /\ isdict(a.m[k]) /\ isdict(b.m[k])
                     THEN deep_merge(a.m[k], b.m[k])
                     ELSE b.m[k]
                ELSE a.m[k]])

(***************************************************************************)
(* Specification of deep_merge                                             *)
(***************************************************************************)
MaxNodes == 3       \* nodes (dicts and leaves) of one argument of deep_merge

MergeKeys == {"k1", "k2"}

\* the leaves an argument is built from: a number and a list
LeavesOf(i) == {JNum(RInt(i)), JList(<<i>>)}

RECURSIVE Size(_)
Size(x) ==
    IF isdict(x)
    THEN LET RECURSIVE total(_)
             total(S) == IF S = {} THEN 0
                         ELSE LET k == CHOOSE k \in S : TRUE
                              IN Size(x.m[k]) + total(S \ {k})
         IN 1 + total(DOMAIN x.m)
    ELSE 1

\* the values of at most n nodes over the given leaves
RECURSIVE ValuesUpTo(_, _)
ValuesUpTo(n, leaves) ==
    IF n = 0 THEN {}
    ELSE leaves \cup
         {x \in {JMap(f) : f \in UNION {[S -> ValuesUpTo(n - 1, leaves)] :
                                            S \in SUBSET MergeKeys}} :
            Size(x) <= n}

InitMerge ==
    /\ base \in ValuesUpTo(MaxNodes, LeavesOf(1))
    /\ overlay \in ValuesUpTo(MaxNodes, LeavesOf(2))
    /\ third \in {x \in ValuesUpTo(MaxNodes, {}) : isdict(x)}
    /\ merged = NotRun
    /\ roadmap = NotRun /\ course_progress = <<>> /\ thresholds = JNull
    /\ skills_status = NotRun /\ filtered = NotRun
    /\ profile = NotRun /\ response = NotRun
    /\ last_op = "init"
    /\ KbIdle
    /\ RtIdle
    /\ DataIdle /\ SvcIdle

Merge ==
    /\ last_op = "init"
    /\ merged' = [ab |-> deep_merge(base, overlay),
                  ab_c |-> deep_merge(deep_merge(base, overlay), third),
                  a_bc |-> deep_merge(base, deep_merge(overlay, third))]
    /\ last_op' = "deep_merge"
    /\ UNCHANGED <<roadmap, course_progress, thresholds, skills_status,
                   filtered, profile, response, base, overlay, third>>
    /\ UNCHANGED kb_vars
    /\ UNCHANGED rt_vars
    /\ UNCHANGED <<ROADMAP_DATA, svc_vars>>

NextMerge == Merge

SpecMerge == InitMerge /\ [][NextMerge]_vars

(***************************************************************************)
(* Properties of deep_merge                                                *)
(***************************************************************************)
Merged == last_op = "deep_merge"

\* r is the structural merge of the dicts a and b
RECURSIVE IsMergeOf(_, _, _)
IsMergeOf(r, a, b) ==
    /\ isdict(r)
    /\ DOMAIN r.m = DOMAIN a.m \cup DOMAIN b.m
    /\ \A k \in DOMAIN b.m :
          IF k \in DOMAIN a.m /\ isdict(a.m[k]) /\ isdict(b.m[k])
          THEN IsMergeOf(r.m[k], a.m[k], b.m[k])
          ELSE r.m[k] = b.m[k]
    /\ \A k \in DOMAIN a.m \ DOMAIN b.m : r.m[k] = a.m[k]

\* C6: deep_merge(base, overlay) is a structural deep merge: at each key of
\* the overlay the result is the recursive merge when both values are maps
\* and the overlay value otherwise (a list, a non-map over a map, a map over
\* a non-map are replaced as a whole); keys only in the base keep their
\* value; when either argument is not a map the overlay is returned.
C6_StructuralMerge ==
    Merged =>
        IF isdict(base) /\ isdict(overlay)
        THEN IsMergeOf(merged.ab, base, overlay)
        ELSE merged.ab = overlay

\* a key holds non-empty maps on both sides and is merged recursively: the
\* nested result keeps a key of the base and takes the overlay's list
C6_Witness ==
    /\ Merged /\ isdict(base) /\ isdict(overlay)
    /\ \E k \in DOMAIN base.m \cap DOMAIN overlay.m :
          /\ isdict(base.m[k]) /\ isdict(overlay.m[k])
          /\ \E j \in DOMAIN base.m[k].m \ DOMAIN overlay.m[k].m :
                merged.ab.m[k].m[j] = base.m[k].m[j]
          /\ \E j \in DOMAIN overlay.m[k].m :
                /\ overlay.m[k].m[j].t = "list"
                /\ merged.ab.m[k].m[j] = overlay.m[k].m[j]

\* a and b share a key only where both hold maps that are disjoint in the
\* same sense
RECURSIVE DisjointDeep(_, _)
DisjointDeep(a, b) ==
    /\ isdict(a) /\ isdict(b)
    /\ \A k \in DOMAIN a.m \cap DOMAIN b.m : DisjointDeep(a.m[k], b.m[k])

\* C7: merge(a, {}) = a; merge({}, b) = b; for a and b with disjoint key
\* sets merge(a, b) holds every key of both with its own value; and
\* merge(merge(a, b), c) = merge(a, merge(b, c)) when a, b and c are
\* disjoint at every nesting level.
C7_MergeLaws ==
    (Merged /\ isdict(base) /\ isdict(overlay)) =>
        /\ deep_merge(base, JMap(EmptyMap)) = base
        /\ deep_merge(JMap(EmptyMap), overlay) = overlay
        /\ DOMAIN base.m \cap DOMAIN overlay.m = {} =>
              /\ DOMAIN merged.ab.m = DOMAIN base.m \cup DOMAIN overlay.m
              /\ \A k \in DOMAIN base.m : merged.ab.m[k] = base.m[k]
              /\ \A k \in DOMAIN overlay.m : merged.ab.m[k] = overlay.m[k]
        /\ ( /\ DisjointDeep(base, overlay)
             /\ DisjointDeep(overlay, third)
             /\ DisjointDeep(base, third) )
             => merged.ab_c = merged.a_bc

\* three non-empty maps, disjoint at every level, that all share one key
\* holding a map, so that both groupings recurse
C7_Witness ==
    /\ Merged /\ isdict(base) /\ isdict(overlay)
    /\ DisjointDeep(base, overlay)
    /\ DisjointDeep(overlay, third)
    /\ DisjointDeep(base, third)
    /\ \E k \in DOMAIN base.m \cap DOMAIN overlay.m \cap DOMAIN third.m :
          /\ DOMAIN base.m[k].m # {}
          /\ DOMAIN overlay.m[k].m # {}
          /\ DOMAIN third.m[k].m # {}
    /\ merged.ab_c = merged.a_bc

(***************************************************************************)
(* roadmap_json_engine.py                                                  *)
(***************************************************************************)
RECURSIVE roadmap_from(_, _)
roadmap_from(i, job_role) ==
    IF i > Len(ROADMAP_DATA) THEN JNull
    ELSE IF lower(ROADMAP_DATA[i].m.job_role.s) = lower(job_role)
    THEN ROADMAP_DATA[i]
    ELSE roadmap_from(i + 1, job_role)

get_roadmap_for_role(job_role) == roadmap_from(1, job_role)

generate_roadmap_response(job_role) ==
    LET data == get_roadmap_for_role(job_role)
    IN IF ~Truthy(data)
       THEN JMap([ok |-> JBool(FALSE), reply |-> JStr("not found")])
       ELSE JMap([ ok |-> JBool(TRUE),
                   job_role |-> JStr(job_role),
                   version |-> data.m.version,
                   description |-> data.m.description,
                   subskills |-> data.m.subskills ])

(***************************************************************************)
(* The objects a request shares with ROADMAP_DATA.  An object is a record  *)
(* [at, val]: val is its value and at is where it lives, <<>> for an       *)
(* object the call created, <<i>> for item i of ROADMAP_DATA and <<i, j>>  *)
(* for subskill j of item i.  A store into an object that lives in         *)
(* ROADMAP_DATA changes ROADMAP_DATA.                                      *)
(***************************************************************************)
Fresh == <<>>

\* d[key] = value on the value of a dict
set_key(d, key, value) ==
    JMap([k \in DOMAIN d.m \cup {key} |-> IF k = key THEN value ELSE d.m[k]])

\* data after obj[key] = value, for an object that lives at path at
data_write(data, at, key, value) ==
    IF at = Fresh THEN data
    ELSE IF Len(at) = 1
    THEN [data EXCEPT ![at[1]] = set_key(@, key, value)]
    ELSE [data EXCEPT ![at[1]] =
            set_key(@, "subskills",
                    JList([@.m.subskills.l EXCEPT ![at[2]] =
                              set_key(@, key, value)]))]

\* the index in ROADMAP_DATA of the item get_roadmap_for_role returns, or 0
RECURSIVE item_from(_, _)
item_from(i, job_role) ==
    IF i > Len(ROADMAP_DATA) THEN 0
    ELSE IF lower(ROADMAP_DATA[i].m.job_role.s) = lower(job_role) THEN i
    ELSE item_from(i + 1, job_role)

\* the elements of data["subskills"], the list object of item i: the
\* subskill dicts of ROADMAP_DATA themselves
item_subskills(i) ==
    [j \in DOMAIN ROADMAP_DATA[i].m.subskills.l |->
        [at |-> <<i, j>>, val |-> ROADMAP_DATA[i].m.subskills.l[j]]]

\* the dict generate_roadmap_response returns: a new dict, whose "subskills"
\* is the list object of the item
response_object(job_role) ==
    [ at |-> Fresh,
      val |-> generate_roadmap_response(job_role),
      subs |-> IF item_from(1, job_role) = 0 THEN <<>>
               ELSE item_subskills(item_from(1, job_role)) ]

\* new_sub = sub: the subskill of the roadmap itself instead of a copy
same_dict(obj) == obj

\* new_sub = dict(sub): a new dict with the entries of sub
dict_copy(obj) == [at |-> Fresh, val |-> obj.val]

\* the loop of filter_roadmap_for_user on the objects of roadmap["subskills"]:
\* the objects appended to filtered, and ROADMAP_DATA after the stores
RECURSIVE filter_objects(_, _, _, _)
filter_objects(subs, i, status, data) ==
    IF i > Len(subs) THEN [out |-> <<>>, data |-> data]
    ELSE LET sub == subs[i]
             user_level == normalize_level(
                              status_entry(status, Get(sub.val, "id", JNull)))
             new_sub == dict_copy(sub)
             levels == without_beginner(new_sub.val)
         IN IF user_level = "advanced"
            THEN filter_objects(subs, i + 1, status, data)
            ELSE IF user_level = "intermediate"
            THEN LET rest == filter_objects(subs, i + 1, status,
                                 data_write(data, new_sub.at, "levels", levels))
                 IN [ out |-> <<[ at |-> new_sub.at,
                                  val |-> with_levels(new_sub.val, levels) ]>>
                                  \o rest.out,
                      data |-> rest.data ]
            ELSE LET rest == filter_objects(subs, i + 1, status, data)
                 IN [out |-> <<new_sub>> \o rest.out, data |-> rest.data]

\* filter_roadmap_for_user(roadmap, skill_status) on a roadmap object
filter_for_user(rmap, skill_status, data) ==
    IF ~Truthy(rmap.val) \/ "subskills" \notin DOMAIN rmap.val.m
    THEN [out |-> <<>>, data |-> data]
    ELSE filter_objects(rmap.subs, 1,
                        IF isdict(skill_status) THEN skill_status
                        ELSE JMap(EmptyMap), data)

\* the values of a list of objects
values_of(objs) == [k \in DOMAIN objs |-> objs[k].val]

\* roadmap["subskills"] = filtered_subskills (handler.py:645)
assign_subskills(rmap, objs) ==
    [ at |-> rmap.at,
      val |-> set_key(rmap.val, "subskills", JList(values_of(objs))),
      subs |-> objs ]

\* ROADMAP_DATA after handler.py 620-645 for a role whose roadmap exists
data_after_request(job_role, skill_status) ==
    LET rmap == response_object(job_role)
        kept == filter_for_user(rmap, skill_status, ROADMAP_DATA)
    IN data_write(kept.data, rmap.at, "subskills",
                  JList(values_of(kept.out)))

(***************************************************************************)
(* handler.py: the roadmap flow of handle_query                            *)
(***************************************************************************)
\* (profile.get("roadmap_progress") or {}).get(key)
stored(prof, key) ==
    LET rp == Get(prof, "roadmap_progress", JNull)
    IN IF Truthy(rp) THEN Get(rp, key, JNull) ELSE JNull

\* the patch whose skills_status prefers the stored status after a switch too
profile_update_keeping_status(prev_role, prev_skill_status, job_role, filtered_subskills, skill_status, t1, t2) ==
    IF Truthy(prev_role) /\ prev_role # JStr(job_role)
    THEN JMap([roadmap_progress |-> JMap([
                job_role |-> JStr(job_role),
                created_at |-> JNum(RInt(t1)),
                last_updated |-> JNum(RInt(t2)),
                subskills |-> JList(filtered_subskills),
                skills_status |-> IF Truthy(prev_skill_status)
                                  THEN prev_skill_status ELSE skill_status ])])
    ELSE JMap([roadmap_progress |-> JMap([
                job_role |-> JStr(job_role),
                last_updated |-> JNum(RInt(t1)),
                subskills |-> JList(filtered_subskills),
                skills_status |-> IF Truthy(prev_skill_status)
                                  THEN prev_skill_status ELSE skill_status ])])

\* the patch whose skills_status is always the freshly computed one
profile_update_always_fresh(prev_role, prev_skill_status, job_role, filtered_subskills, skill_status, t1, t2) ==
    IF Truthy(prev_role) /\ prev_role # JStr(job_role)
    THEN JMap([roadmap_progress |-> JMap([
                job_role |-> JStr(job_role),
                created_at |-> JNum(RInt(t1)),
                last_updated |-> JNum(RInt(t2)),
                subskills |-> JList(filtered_subskills),
                skills_status |-> skill_status ])])
    ELSE JMap([roadmap_progress |-> JMap([
                job_role |-> JStr(job_role),
                last_updated |-> JNum(RInt(t1)),
                subskills |-> JList(filtered_subskills),
                skills_status |-> skill_status ])])

\* the patch: a full reset when the user switches job role
profile_update_of(prev_role, prev_skill_status, job_role, filtered_subskills, skill_status, t1, t2) ==
    IF Truthy(prev_role) /\ prev_role # JStr(job_role)
    THEN JMap([roadmap_progress |-> JMap([
                job_role |-> JStr(job_role),
                created_at |-> JNum(RInt(t1)),
                last_updated |-> JNum(RInt(t2)),
                subskills |-> JList(filtered_subskills),
                skills_status |-> skill_status ])])
    ELSE JMap([roadmap_progress |-> JMap([
                job_role |-> JStr(job_role),
                last_updated |-> JNum(RInt(t1)),
                subskills |-> JList(filtered_subskills),
                skills_status |-> IF Truthy(prev_skill_status)
                                  THEN prev_skill_status ELSE skill_status ])])

AskJobRole ==
    JMap([ response |-> JStr("ask job role"),
           intent |-> JMap([mode |-> JStr("ask_job_role")]),
           profile_update |-> JMap(EmptyMap) ])

RoadmapNotFound ==
    JMap([ response |-> JStr("roadmap not found"),
           intent |-> JMap([mode |-> JStr("roadmap")]),
           sources |-> JList(<<>>),
           meta |-> JMap([used_kb |-> JBool(FALSE),
                          latency_ms |-> JNum(RInt(0))]),
           profile_update |-> JMap(EmptyMap) ])

\* the job role the flow works with: the detected one, else (when the text
\* mentions "roadmap") the stored one, replaced by the role matched from the
\* first active course; None when the flow does not apply
resolve_job_role(detected, mentions_roadmap, prof, course_role) ==
    IF Truthy(detected) THEN detected
    ELSE IF ~mentions_roadmap THEN JNull
    ELSE IF ~Truthy(stored(prof, "job_role")) THEN JNull
    ELSE IF Truthy(course_role) THEN course_role
    ELSE stored(prof, "job_role")

\* lines 648-717: the response of the flow, with the patch of the profile
roadmap_reply(job_role, prof, skill_status, filtered_subskills, t1, t2) ==
    LET prev_role == Get(Get(prof, "roadmap_progress", JMap(EmptyMap)),
                         "job_role", JNull)
        prev_skill_status == stored(prof, "skills_status")
    IN JMap([ ok |-> JBool(TRUE),
              reply |-> JStr("roadmap created"),
              intent |-> JMap([mode |-> JStr("roadmap")]),
              sources |-> JList(<<>>),
              meta |-> JMap([
                  type |-> JStr("roadmap"),
                  roadmap |-> JMap([
                      job_role |-> JStr(job_role),
                      subskills |-> JList(filtered_subskills),
                      skills_status |-> skill_status ]),
                  used_kb |-> JBool(FALSE),
                  latency_ms |-> JNum(RInt(0)) ]),
              profile_update |->
                  profile_update_of(prev_role, prev_skill_status, job_role,
                                    filtered_subskills, skill_status,
                                    t1, t2) ])

(***************************************************************************)
(* Specification of the roadmap flow and of the stored profile             *)
(***************************************************************************)
MaxTime == 2        \* timestamps returned by datetime.utcnow()

\* what detect_job_role can return
DetectedRoles ==
    {JNull, JStr("Android Developer"), JStr("Front-End Web Developer"),
     JStr("iOS Developer")}

\* the course progress a request's platform_data can carry
FlowProgressMaps ==
    { <<>>,
      << <<"HTML", JNum(RInt(100))>> >>,
      << <<"css ", JNum(RInt(100))>> >>,
      << <<"HTML", JNum(RInt(100))>>, <<"css ", JNum(RInt(150))>> >> }

\* the job roles a request can resolve to for the stored profile
ResolvedRoles(prof) ==
    { resolve_job_role(d, TRUE, prof, c) : d \in DetectedRoles,
                                           c \in DetectedRoles } \ {JNull}

Init ==
    /\ course_progress = <<>>
    /\ profile = JMap(EmptyMap)
    /\ response = NotRun
    /\ last_op = "init"
    /\ roadmap = NotRun /\ thresholds = JNull
    /\ skills_status = NotRun /\ filtered = NotRun
    /\ base = NotRun /\ overlay = NotRun /\ third = NotRun /\ merged = NotRun
    /\ KbIdle
    /\ RtIdle
    /\ DataIdle /\ SvcIdle

\* a request without a job role that says "roadmap" while no role is stored
AskForRole ==
    /\ ~Truthy(stored(profile, "job_role"))
    /\ \E cp \in FlowProgressMaps : course_progress' = cp
    /\ response' = AskJobRole
    /\ last_op' = "handle_query"
    /\ UNCHANGED <<roadmap, thresholds, skills_status,
                   filtered, profile, base, overlay, third, merged>>
    /\ UNCHANGED kb_vars
    /\ UNCHANGED rt_vars
    /\ UNCHANGED <<ROADMAP_DATA, svc_vars>>

\* a request whose job role is detected in the text, or taken from the
\* stored profile and the first active course
RoadmapRequest ==
    /\ \E cp \in FlowProgressMaps, job_role \in ResolvedRoles(profile) :
        \E rmap \in {generate_roadmap_response(job_role.s)} :
          /\ course_progress' = cp
          /\ IF ~Truthy(Get(rmap, "ok", JNull))
             THEN /\ response' = RoadmapNotFound
                  /\ UNCHANGED ROADMAP_DATA
             ELSE \E skill_status \in {generate_skill_progress_for_roadmap(
                        rmap, with_platform_data(profile, cp),
                        COURSE_CATALOG, JNull)} :
                  \E filtered_subskills \in
                        {filter_roadmap_for_user(rmap, skill_status)} :
                  \E t1, t2 \in 1..MaxTime :
                      /\ t1 <= t2
                      /\ ROADMAP_DATA' = data_after_request(job_role.s,
                                                            skill_status)
                      /\ response' = roadmap_reply(job_role.s, profile,
                                          skill_status, filtered_subskills,
                                          t1, t2)
    /\ last_op' = "handle_query"
    /\ UNCHANGED <<roadmap, thresholds, skills_status,
                   filtered, profile, base, overlay, third, merged>>
    /\ UNCHANGED kb_vars
    /\ UNCHANGED rt_vars
    /\ UNCHANGED svc_vars

\* the profile store merges the patch of the last response into the profile
StorePatch ==
    /\ last_op = "handle_query"
    /\ profile' = deep_merge(profile, response.m.profile_update)
    /\ last_op' = "store_patch"
    /\ UNCHANGED <<roadmap, course_progress, thresholds, skills_status,
                   filtered, response, base, overlay, third, merged>>
    /\ UNCHANGED kb_vars
    /\ UNCHANGED rt_vars
    /\ UNCHANGED <<ROADMAP_DATA, svc_vars>>

Next == AskForRole \/ RoadmapRequest \/ StorePatch

Spec == Init /\ [][Next]_vars

(***************************************************************************)
(* Properties of the roadmap flow                                          *)
(***************************************************************************)
\* the last request was answered with a roadmap
RoadmapAnswered ==
    /\ last_op \in {"handle_query", "store_patch"}
    /\ Get(response, "ok", JNull) = JBool(TRUE)

FlowRole == response.m.meta.m.roadmap.m.job_role.s
FlowStatus == response.m.meta.m.roadmap.m.skills_status
FlowSubskills == response.m.meta.m.roadmap.m.subskills.l
FlowPatch == response.m.profile_update.m.roadmap_progress.m

\* the role and the status the profile held when the request arrived
StoredRole == stored(profile, "job_role")
StoredStatus == stored(profile, "skills_status")

SubskillIds(job_role) ==
    LET subs == get_roadmap_for_role(job_role).m.subskills.l
    IN {subs[i].m.id.s : i \in DOMAIN subs}

FreshStatus ==
    generate_skill_progress_for_roadmap(generate_roadmap_response(FlowRole),
                                        with_platform_data(profile, course_progress),
                                        COURSE_CATALOG, JNull)

RoleSwitched ==
    /\ last_op = "handle_query"
    /\ RoadmapAnswered
    /\ Truthy(StoredRole)
    /\ StoredRole # JStr(FlowRole)

\* C2: when the stored job role is non-empty and differs from the resolved
\* role, the patch's skills_status is exactly the status freshly computed for
\* the new roadmap (its keys are subskill ids of the new role, none of its
\* entries comes from the stored status) and the patch carries a created_at.
C2_RoleSwitchPatch ==
    RoleSwitched =>
        /\ FlowPatch.skills_status = FreshStatus
        /\ DOMAIN FlowPatch.skills_status.m \subseteq SubskillIds(FlowRole)
        /\ \A sid \in DOMAIN FlowPatch.skills_status.m :
              FlowPatch.skills_status.m[sid] = FreshStatus.m[sid]
        /\ "created_at" \in DOMAIN FlowPatch

\* a switch away from a role whose stored status differs from the fresh one
C2_Witness ==
    /\ RoleSwitched
    /\ Truthy(StoredStatus)
    /\ StoredStatus # FreshStatus
    /\ DOMAIN StoredStatus.m \cap SubskillIds(FlowRole) # {}
    /\ \E sid \in DOMAIN StoredStatus.m \cap SubskillIds(FlowRole) :
          StoredStatus.m[sid] # FreshStatus.m[sid]
    /\ FlowPatch.skills_status = FreshStatus

\* C3: after a role switch, deep_merge(profile, patch) leaves
\* roadmap_progress.skills_status equal to the patch's skills_status, so no
\* subskill id of the previous role only remains in the merged profile.
C3_StatusReplaced ==
    (/\ last_op = "store_patch"
     /\ RoadmapAnswered
     /\ "created_at" \in DOMAIN FlowPatch)
    => /\ StoredStatus = FlowPatch.skills_status
       /\ DOMAIN StoredStatus.m \subseteq SubskillIds(FlowRole)

\* C5: in the roadmap flow every subskill whose computed level is Advanced
\* is absent from the filtered subskills and every subskill whose computed
\* level is Intermediate is returned without its beginner tier.
C5_PrunedByComputedLevel ==
    (last_op = "handle_query" /\ RoadmapAnswered) =>
        \A sid \in DOMAIN FlowStatus.m :
            LET level == FlowStatus.m[sid].m.level.s
                kept == {i \in DOMAIN FlowSubskills :
                            FlowSubskills[i].m.id.s = sid}
            IN /\ level = "Advanced" => kept = {}
               /\ level = "Intermediate" =>
                    \A i \in kept :
                        "beginner" \notin DOMAIN FlowSubskills[i].m.levels.m

\* the last request resolved to the stored role, or no role was stored
RoleKept ==
    /\ last_op = "handle_query"
    /\ RoadmapAnswered
    /\ (~Truthy(StoredRole) \/ StoredRole = JStr(FlowRole))

\* C22: when the stored job role equals the resolved role, or no role is
\* stored, the patch's roadmap_progress holds exactly job_role, last_updated,
\* subskills and skills_status (no created_at), and its skills_status is the
\* profile's prior skills_status when that is present and non-empty,
\* otherwise the freshly computed one.
C22_RoleKeptPatch ==
    RoleKept =>
        /\ DOMAIN response.m.profile_update.m = {"roadmap_progress"}
        /\ DOMAIN FlowPatch =
              {"job_role", "last_updated", "subskills", "skills_status"}
        /\ FlowPatch.job_role = JStr(FlowRole)
        /\ FlowPatch.subskills = JList(FlowSubskills)
        /\ FlowPatch.skills_status =
              IF StoredStatus # JNull /\ StoredStatus # JMap(EmptyMap)
              THEN StoredStatus ELSE FreshStatus

\* a request for the stored role whose fresh status differs from the stored
\* one: the patch carries the stored one
C22_Witness ==
    /\ RoleKept
    /\ StoredRole = JStr(FlowRole)
    /\ StoredStatus # JNull /\ StoredStatus # JMap(EmptyMap)
    /\ StoredStatus # FreshStatus
    /\ FlowPatch.skills_status = StoredStatus
    /\ FlowStatus = FreshStatus

(***************************************************************************)
(* adaptive_roadmap_engine.py                                              *)
(***************************************************************************)
\* str(cid) for the course ids of the model
str_of_id(cid) ==
    CASE cid = 1 -> "1"
      [] cid = 2 -> "2"
      [] cid = 3 -> "3"

\* the ids of all tiers of mapped_courses whose value is a list
all_course_ids(mapped) ==
    UNION { IF mapped.m[l].t = "list" THEN SeqRange(mapped.m[l].l) ELSE {} :
                l \in DOMAIN mapped.m }

evaluate_subskill_status(sub, course_progress_map) ==
    LET mapped == IF Truthy(Get(sub, "mapped_courses", JMap(EmptyMap)))
                  THEN Get(sub, "mapped_courses", JMap(EmptyMap))
                  ELSE JMap(EmptyMap)
        ids == all_course_ids(mapped)
        touched == {cid \in ids : str_of_id(cid) \in OKeys(course_progress_map)}
        progress(cid) == OGet(course_progress_map, str_of_id(cid))
    IN IF ids = {} THEN "not_started"
       ELSE IF \E cid \in touched : RGe(progress(cid), RInt(100))
       THEN "completed"
       ELSE IF \E cid \in touched : /\ RGt(progress(cid), RInt(0))
                                    /\ RLt(progress(cid), RInt(100))
       THEN "in_progress"
       ELSE "not_started"

\* course_map[str(k)] = float(v) for each entry of course_progress
RECURSIVE course_map_from(_, _, _)
course_map_from(raw, i, course_map) ==
    IF i > Len(raw) THEN course_map
    ELSE course_map_from(raw, i + 1,
                         OSet(course_map, raw[i][1], to_float(raw[i][2]).v))

RECURSIVE user_status_from(_, _, _, _)
user_status_from(subs, i, course_map, output) ==
    IF i > Len(subs) THEN output
    ELSE LET s == subs[i]
             sid == Get(s, "id", JNull)
         IN user_status_from(subs, i + 1, course_map,
                IF ~Truthy(sid) THEN output
                ELSE [k \in DOMAIN output \cup {sid.s} |->
                        IF k = sid.s
                        THEN JMap([ name |-> Get(s, "name", JNull),
                                    status |-> JStr(evaluate_subskill_status(
                                                        s, course_map)) ])
                        ELSE output[k]])

generate_user_skill_status(rmap, prof) ==
    IF ~Truthy(rmap) \/ "subskills" \notin DOMAIN rmap.m THEN JMap(EmptyMap)
    ELSE LET plat == Get(prof, "platform_data", JMap(EmptyMap))
             cp == Get(plat, "course_progress", JODict(<<>>)).items
             course_map == course_map_from(cp, 1, <<>>)
         IN JMap(user_status_from(rmap.m.subskills.l, 1, course_map, EmptyMap))

(***************************************************************************)
(* Specification of the two producers of per-subskill status entries       *)
(***************************************************************************)
IdKeys == <<"1", "2", "HTML">>
IdPercents == {0, 50, 100}
IdKeyRank(k) == CHOOSE i \in DOMAIN IdKeys : IdKeys[i] = k

\* entries keyed by str(course id), and one keyed by a course name
IdEntries ==
    {<<k, JNum(RInt(p))>> : k \in {"1", "2"}, p \in IdPercents}
        \cup {<<"HTML", JNum(RInt(100))>>}

\* course_progress dicts; the keys are distinct, and both producers look
\* entries up by key, so one insertion order per key set is enumerated
IdProgressMaps ==
    {cp \in SeqsUpTo(IdEntries, MaxEntries) :
        \A i, j \in DOMAIN cp : i < j => IdKeyRank(cp[i][1]) < IdKeyRank(cp[j][1])}

InitStatus ==
    /\ roadmap \in {JMap([subskills |-> JList(<<SubskillOf("S1", mc)>>)]) :
                        mc \in MappedCourses}
    /\ course_progress \in IdProgressMaps
    /\ thresholds = NotRun
    /\ skills_status = NotRun
    /\ filtered = NotRun /\ profile = NotRun /\ response = NotRun
    /\ last_op = "init"
    /\ base = NotRun /\ overlay = NotRun /\ third = NotRun /\ merged = NotRun
    /\ KbIdle
    /\ RtIdle
    /\ DataIdle /\ SvcIdle

EvaluateStatus ==
    /\ last_op = "init"
    /\ skills_status' = generate_user_skill_status(
            roadmap, with_platform_data(JMap(EmptyMap), course_progress))
    /\ last_op' = "generate_user_skill_status"
    /\ UNCHANGED <<roadmap, course_progress, thresholds, filtered, profile,
                   response, base, overlay, third, merged>>
    /\ UNCHANGED kb_vars
    /\ UNCHANGED rt_vars
    /\ UNCHANGED <<ROADMAP_DATA, svc_vars>>

NextStatus == Evaluate \/ EvaluateStatus

SpecStatus == InitStatus /\ [][NextStatus]_vars

(***************************************************************************)
(* Properties of the status entries                                        *)
(***************************************************************************)
StatusEvaluated == last_op = "generate_user_skill_status"

\* tier -> the percents the producer that ran finds for the tier's mapped ids
FoundPercents ==
    IF Evaluated THEN ResolvedPercents
    ELSE [l \in SeqRange(Levels) |->
            LET found == SelectSeq(MappedIds(l),
                            LAMBDA cid : str_of_id(cid) \in OKeys(course_progress))
            IN [i \in DOMAIN found |->
                    OGet(course_progress, str_of_id(found[i])).v]]

DerivedStatus(found) ==
    IF ~\E l \in SeqRange(Levels) : \E i \in DOMAIN found[l] :
            RGt(found[l][i], RInt(0))
    THEN "not_started"
    ELSE IF RGe(ExactOverall(ExactTierMeans(found)), RInt(100))
    THEN "completed"
    ELSE "in_progress"

\* C11: every entry produced for a subskill, by the progress calculator or by
\* the status evaluator, carries a status that is not_started if no mapped
\* course has progress > 0, completed if the overall percent is >= 100, and
\* in_progress otherwise
C11_StatusDerived ==
    (Evaluated \/ StatusEvaluated) =>
        \A found \in {FoundPercents} :
            /\ "status" \in DOMAIN Result.m
            /\ Result.m.status = JStr(DerivedStatus(found))

(***************************************************************************)
(* Specification of normalize_level on its own                             *)
(***************************************************************************)
LevelTexts ==
    LevelStrings \cup {"Beginner", "Intermediate", "Intermediate ", "ADVANCED",
                       "completed", " completed", "Selesai", "done",
                       "In_Progress", "ongoing", " "}

\* the values normalize_level can be handed: texts, records with a status,
\* records without one, and values that are neither
LevelInputs ==
    {JStr(x) : x \in LevelTexts}
        \cup {JMap([status |-> JStr(x)]) : x \in LevelTexts}
        \cup {JMap([name |-> JStr("Sub"), status |-> JStr(x)]) : x \in LevelTexts}
        \cup {JMap([name |-> JStr("Sub"), level |-> JStr("Advanced")]),
              JMap([name |-> JStr("completed")]),
              JMap([status |-> JNull]), JMap([status |-> JNum(RInt(3))]),
              JMap([status |-> JBool(TRUE)]),
              JMap([status |-> JList(<<JStr("completed")>>)]),
              JMap([status |-> JMap([status |-> JStr("completed")])]),
              JMap(EmptyMap), JNull, JNum(RInt(0)), JNum(RInt(3)),
              JBool(TRUE), JBool(FALSE), JList(<<>>),
              JList(<<JStr("completed")>>)}

InitLevel ==
    /\ skills_status \in LevelInputs
    /\ roadmap = JNull /\ course_progress = <<>> /\ thresholds = JNull
    /\ filtered = NotRun /\ profile = NotRun /\ response = NotRun
    /\ last_op = "init"
    /\ base = NotRun /\ overlay = NotRun /\ third = NotRun /\ merged = NotRun
    /\ KbIdle
    /\ RtIdle
    /\ DataIdle /\ SvcIdle

Normalize ==
    /\ last_op = "init"
    /\ filtered' = JStr(normalize_level(skills_status))
    /\ last_op' = "normalize_level"
    /\ UNCHANGED <<roadmap, course_progress, thresholds, skills_status,
                   profile, response, base, overlay, third, merged>>
    /\ UNCHANGED kb_vars
    /\ UNCHANGED rt_vars
    /\ UNCHANGED <<ROADMAP_DATA, svc_vars>>

NextLevel == Normalize

SpecLevel == InitLevel /\ [][NextLevel]_vars

(***************************************************************************)
(* Properties of normalize_level                                           *)
(***************************************************************************)
Normalized == last_op = "normalize_level"

\* the text normalize_level looks at: the input itself when it is a text, the
\* status of a record when that is a text, and no text otherwise
LevelText(level) ==
    IF level.t = "str" THEN level.s
    ELSE IF level.t = "map" /\ "status" \in DOMAIN level.m
                            /\ level.m.status.t = "str"
    THEN level.m.status.s
    ELSE ""

\* C12: normalize_level returns, for every input, one of beginner,
\* intermediate, advanced: after trimming and lowercasing, completed, selesai
\* and done give advanced, in_progress and ongoing give intermediate, the
\* three level names give themselves, everything else (no input, a record
\* without a status, a value that is no text) gives beginner
C12_NormalizeTotal ==
    Normalized =>
        LET key == lower(strip(LevelText(skills_status)))
        IN /\ filtered.t = "str"
           /\ filtered.s \in {"beginner", "intermediate", "advanced"}
           /\ key \in {"completed", "selesai", "done", "advanced"}
                  <=> filtered.s = "advanced"
           /\ key \in {"in_progress", "ongoing", "intermediate"}
                  <=> filtered.s = "intermediate"

C12_Witness ==
    /\ Normalized
    /\ skills_status = JMap([name |-> JStr("Sub"), status |-> JStr(" completed")])
    /\ filtered = JStr("advanced")

(***************************************************************************)
(* kb_utils.py: texts                                                      *)
(***************************************************************************)
\* set(re.findall(r"\w+", s.lower())) for the texts of the model
word_tokens(s) ==
    CASE s = "HTML CSS" -> {"html", "css"}
      [] s = "Java" -> {"java"}
      [] s = "Belajar HTML" -> {"belajar", "html"}
      [] s = "CSS & HTML" -> {"css", "html"}
      [] s = "Java Dasar" -> {"java", "dasar"}
      [] s = "" -> {}

\* normalize_text: lower-case, every character outside [a-z0-9\s] replaced by
\* a blank, runs of blanks collapsed, trimmed
normalize_text(s) ==
    CASE s = "HTML CSS" -> "html css"
      [] s = "Java" -> "java"
      [] s = "JavaScript" -> "javascript"
      [] s = "C++" -> "c"
      [] s = "--" -> ""
      [] OTHER -> s

\* a in b, for normalized texts of the model
is_in(a, b) ==
    \/ a = ""
    \/ a = b
    \/ <<a, b>> \in { <<"html", "html css">>, <<"css", "html css">>,
                      <<"c", "html css">>, <<"java", "javascript">>,
                      <<"c", "javascript">>, <<"web", "web design">> }

\* kws.startswith("[")
starts_with_bracket(s) == s \in {"[\"java\", \"oop\"]", "[html"}

\* json.loads of a text that starts with "[": the list, or Raised when the
\* text is not JSON
json_loads(s) ==
    CASE s = "[\"java\", \"oop\"]" -> JList(<<"java", "oop">>)
      [] OTHER -> Raised

(***************************************************************************)
(* kb_utils.py: the knowledge base and the scorer                          *)
(***************************************************************************)
\* a numpy array, the value pandas.read_parquet gives a list-valued cell
JArray(x) == [t |-> "array", l |-> x]

\* the rows of the knowledge base frame, row i + 1 at position i of the frame
KB_ROWS ==
    << [id |-> JStr("c-html"), title |-> JStr("Belajar HTML"),
        type |-> JStr("course"), keywords |-> JArray(<<"html", "web design">>)],
       [id |-> JNull, title |-> JStr("CSS & HTML"),
        type |-> JStr("tutorial"), keywords |-> JStr("css")],
       [id |-> JStr("c-java"), title |-> JStr("Java Dasar"),
        type |-> JStr("Course"), keywords |-> JList(<<"JavaScript", "C++">>)],
       [id |-> JStr("t-java"), title |-> JNull,
        type |-> JStr("tutorials"), keywords |-> JStr("[\"java\", \"oop\"]")],
       [id |-> JStr("x-html"), title |-> JStr("Belajar HTML"),
        type |-> JNull, keywords |-> JStr("[html")] >>
    \o [i \in 1..3 |-> [id |-> JNull, title |-> JStr("CSS & HTML"),
                        type |-> JStr("course"), keywords |-> JNull]]
    \o [i \in 1..5 |-> [id |-> JNull, title |-> JStr("Belajar HTML"),
                        type |-> JStr("tutorials"), keywords |-> JStr("html")]]

\* the bonuses of the scorer
TITLE_BONUS == Rat(3, 20)
TYPE_BONUS == Rat(3, 10)
KW_BONUS == Rat(1, 4)
DEFAULT_THRESHOLD == Rat(9, 50)

\* kws = row.get("keywords") or [], then the str cases: the keywords as a
\* sequence of texts, or Raised.  "or" asks the cell for its truth value: an
\* array of more than one element raises ValueError, an array of one element
\* has the truth value of the element, an empty one is false.
keywords_of(row) ==
    LET v == row.keywords
    IN CASE v.t = "array" /\ Len(v.l) >= 2 -> Raised
         [] v.t = "array" /\ Len(v.l) = 1 ->
                IF v.l[1] = "" THEN JList(<<>>) ELSE JList(v.l)
         [] v.t = "array" -> JList(<<>>)
         [] v.t = "null" -> JList(<<>>)
         [] v.t = "list" -> JList(v.l)
         [] v.t = "str" /\ v.s = "" -> JList(<<>>)
         [] v.t = "str" /\ starts_with_bracket(v.s) -> json_loads(v.s)
         [] v.t = "str" -> JList(<<v.s>>)
         [] OTHER -> Raised

RNeg(a) == [n |-> -a.n, d |-> a.d]
RTimes(a, k) == Rat(a.n * k, a.d)

\* str(row.get("title") or "") and str(row.get("type") or "unknown")
title_of(row) == IF Truthy(row.title) THEN row.title.s ELSE ""
type_of(row) == IF Truthy(row.type) THEN row.type.s ELSE "unknown"

kw_bonus_of(subskill_name, row) ==
    LET kws == keywords_of(row)
        q == normalize_text(subskill_name)
    IN IF kws = Raised THEN RInt(0)
       ELSE IF \E i \in DOMAIN kws.l :
                  \/ is_in(normalize_text(kws.l[i]), q)
                  \/ is_in(q, normalize_text(kws.l[i]))
       THEN KW_BONUS
       ELSE RInt(0)

final_score(subskill_name, row, dist) ==
    LET base_score == RNeg(dist)
        name_words == word_tokens(subskill_name)
        title_words == word_tokens(title_of(row))
        title_bonus == RTimes(TITLE_BONUS, Cardinality(name_words \cap title_words))
        type_bonus == IF lower(type_of(row)) = "course" THEN TYPE_BONUS
                      ELSE RInt(0)
    IN RAdd(RAdd(RAdd(base_score, title_bonus), type_bonus),
            kw_bonus_of(subskill_name, row))

hit_of(kb, subskill_name, idx, dist) ==
    LET row == kb[idx + 1]
    IN JMap([ id |-> IF row.id = JNull THEN JNum(RInt(idx)) ELSE row.id,
              title |-> JStr(title_of(row)),
              type |-> JStr(type_of(row)),
              score |-> JNum(final_score(subskill_name, row, dist)) ])

\* the loop keeping only the hits strictly above the threshold
RECURSIVE results_above(_, _, _, _, _)
results_above(kb, subskill_name, found, i, score_threshold) ==
    IF i > Len(found) THEN <<>>
    ELSE LET idx == found[i][1]
             dist == found[i][2]
             rest == results_above(kb, subskill_name, found, i + 1, score_threshold)
         IN IF idx < 0 THEN rest
            ELSE IF idx + 1 > Len(kb) THEN rest
            ELSE IF RGt(final_score(subskill_name, kb[idx + 1], dist),
                        score_threshold)
            THEN <<hit_of(kb, subskill_name, idx, dist)>> \o rest
            ELSE rest

\* the loop over zip(ids, dists): the hits that reach the threshold, in the
\* order of the candidates
RECURSIVE results_from(_, _, _, _, _)
results_from(kb, subskill_name, found, i, score_threshold) ==
    IF i > Len(found) THEN <<>>
    ELSE LET idx == found[i][1]
             dist == found[i][2]
             rest == results_from(kb, subskill_name, found, i + 1, score_threshold)
         IN IF idx < 0 THEN rest
            ELSE IF idx + 1 > Len(kb) THEN rest
            ELSE IF RGe(final_score(subskill_name, kb[idx + 1], dist),
                        score_threshold)
            THEN <<hit_of(kb, subskill_name, idx, dist)>> \o rest
            ELSE rest

\* a descending sort that puts a hit before the earlier hits of equal score
RECURSIVE sorted_ties_reversed(_)
sorted_ties_reversed(results) ==
    IF results = <<>> THEN <<>>
    ELSE LET n == Len(results)
             front == sorted_ties_reversed(SubSeq(results, 1, n - 1))
             r == results[n]
             before == SelectSeq(front,
                          LAMBDA h : RGt(h.m.score.v, r.m.score.v))
             after == SelectSeq(front,
                          LAMBDA h : RGe(r.m.score.v, h.m.score.v))
         IN before \o <<r>> \o after

\* sorted(results, key=lambda r: r["score"], reverse=True): a stable sort,
\* hits of equal score keep the order they have in results
RECURSIVE sorted_by_score(_)
sorted_by_score(results) ==
    IF results = <<>> THEN <<>>
    ELSE LET n == Len(results)
             front == sorted_by_score(SubSeq(results, 1, n - 1))
             r == results[n]
             before == SelectSeq(front,
                          LAMBDA h : RGe(h.m.score.v, r.m.score.v))
             after == SelectSeq(front,
                          LAMBDA h : RLt(h.m.score.v, r.m.score.v))
         IN before \o <<r>> \o after

\* k = max(1, int(topk))
search_k(topk) == IF topk > 1 THEN topk ELSE 1

\* query_kb_for_subskill once kb, index and model are there; found is what
\* _index.search(q_emb, k) returned, as <<id, distance>> pairs
query_hits(kb, subskill_name, found, score_threshold) ==
    sorted_by_score(results_from(kb, subskill_name, found, 1, score_threshold))

\* what the three globals are once loaded
LoadedKb == [t |-> "frame", rows |-> KB_ROWS]
LoadedIndex == [t |-> "index"]
LoadedModel == [t |-> "model"]

\* one global after init_from_embeddings: a loader that raises leaves None
after_init(current, name, loaded, art) ==
    IF current # JNull THEN current
    ELSE IF name \in art THEN loaded
    ELSE JNull

\* _model_cache after init_from_embeddings: get_model stores the model it
\* constructed, and is only called while _model is None
cache_after(cache, model_after, model_before) ==
    IF model_before = JNull /\ model_after # JNull THEN model_after ELSE cache

\* query_kb_for_subskill answering an empty list when something is missing
query_or_empty(kb, index, model, subskill_name, found, score_threshold) ==
    IF kb = JNull \/ index = JNull \/ model = JNull THEN JList(<<>>)
    ELSE JList(query_hits(kb.rows, subskill_name, found, score_threshold))

\* query_kb_for_subskill after its automatic initialisation attempt, on the
\* globals as they are then
query_kb_for_subskill(kb, index, model, subskill_name, found, score_threshold) ==
    IF kb = JNull \/ index = JNull \/ model = JNull THEN Raised
    ELSE JList(query_hits(kb.rows, subskill_name, found, score_threshold))

(***************************************************************************)
(* Specification of the retrieval scorer                                   *)
(***************************************************************************)
MaxTopK == 3        \* the largest topk a query is made with

SubskillNames == {"HTML CSS", "Java", ""}
ScoreThresholds == {DEFAULT_THRESHOLD, RInt(0)}
Distances == {RInt(0), Rat(1, 4)}

\* the ids the searches of the model return: the first rows of the frame,
\* which differ in every field the scorer reads, and one id past the end of
\* the frame (an index built from more records than the frame has)
IndexIds == (0..4) \cup {Len(KB_ROWS)}

\* what the index returns when it has fewer than k results
Padding == <<-1, RInt(-1)>>

\* n results, most similar first, no id twice
SearchRuns(n) ==
    {f \in [1..n -> IndexIds \X Distances] :
        /\ \A i, j \in 1..n : i < j => f[i][1] # f[j][1]
        /\ \A i, j \in 1..n : i < j => RGe(f[i][2], f[j][2])}

\* the results of _index.search(q_emb, k): k pairs, the results first
Searches(k) ==
    UNION {{f \o [i \in 1..(k - n) |-> Padding] : f \in SearchRuns(n)} :
                n \in 0..k}

ArtifactSets == {{"kb", "index", "model"}, {"kb", "index"}, {}}

InitScorer ==
    /\ _kb = JNull /\ _index = JNull /\ _model = JNull
    /\ _model_cache = JNull
    /\ artifacts \in ArtifactSets
    /\ kb_query = NotRun /\ kb_hits = NotRun /\ base_roadmap = NotRun
    /\ roadmap = JNull /\ course_progress = <<>> /\ thresholds = JNull
    /\ skills_status = NotRun
    /\ filtered = NotRun /\ profile = NotRun /\ response = NotRun
    /\ last_op = "init"
    /\ base = NotRun /\ overlay = NotRun /\ third = NotRun /\ merged = NotRun
    /\ RtIdle
    /\ DataIdle /\ SvcIdle

app_vars == <<roadmap, course_progress, thresholds, skills_status, filtered,
              profile, response, base, overlay, third, merged>>

\* init_kb_refs(kb_obj, index_obj, model_obj), each argument given or None;
\* a run has at most one such call, before its one query
InitKbRefs ==
    /\ last_op = "init"
    /\ \E given \in {{"kb", "index", "model"}, {"kb"}, {"model"}} :
          /\ _kb' = IF "kb" \in given THEN LoadedKb ELSE _kb
          /\ _index' = IF "index" \in given THEN LoadedIndex ELSE _index
          /\ _model' = IF "model" \in given THEN LoadedModel ELSE _model
    /\ last_op' = "init_kb_refs"
    /\ UNCHANGED <<_model_cache, artifacts, kb_query, kb_hits, base_roadmap,
                   app_vars>>
    /\ UNCHANGED rt_vars
    /\ UNCHANGED <<ROADMAP_DATA, svc_vars>>

Query ==
    /\ kb_query = NotRun
    /\ \E subskill_name \in SubskillNames, topk \in 0..MaxTopK,
          score_threshold \in ScoreThresholds :
          /\ _kb' = after_init(_kb, "kb", LoadedKb, artifacts)
          /\ _index' = after_init(_index, "index", LoadedIndex, artifacts)
          /\ _model' = after_init(_model, "model", LoadedModel, artifacts)
          /\ _model_cache' = cache_after(_model_cache, _model', _model)
          /\ \E found \in IF _kb' = JNull \/ _index' = JNull \/ _model' = JNull
                          THEN {<<>>} ELSE Searches(search_k(topk)) :
                /\ kb_query' = [ subskill_name |-> subskill_name, topk |-> topk,
                                 score_threshold |-> score_threshold,
                                 found |-> found ]
                /\ kb_hits' = query_kb_for_subskill(_kb', _index', _model',
                                    subskill_name, found, score_threshold)
    /\ last_op' = "query_kb_for_subskill"
    /\ UNCHANGED <<artifacts, base_roadmap, app_vars>>
    /\ UNCHANGED rt_vars
    /\ UNCHANGED <<ROADMAP_DATA, svc_vars>>

(***************************************************************************)
(* roadmap_engine.py: generate_base_roadmap                                *)
(***************************************************************************)
MaxCanonical == 2   \* subskills of the canonical roadmap

\* the first n elements of a list: seq[:n]
Take(seq, n) == SubSeq(seq, 1, IF Len(seq) < n THEN Len(seq) ELSE n)

\* [h["title"] for h in kb_hits if h["type"] == typ]
titles_of_type(kb_hits_list, typ) ==
    LET sel == SelectSeq(kb_hits_list, LAMBDA h : h.m.type = JStr(typ))
    IN [i \in DOMAIN sel |-> sel[i].m.title]

\* the entry generate_base_roadmap appends for one subskill, given the hits
mapped_subskill(sub, hits) ==
    JMap([ id |-> Get(sub, "id", JNull),
           name |-> Get(sub, "name", JStr("")),
           keywords |-> Get(sub, "keywords", JList(<<>>)),
           mapped_courses |-> JList(Take(titles_of_type(hits, "course"), 3)),
           mapped_tutorials |-> JList(Take(titles_of_type(hits, "tutorials"), 5)),
           description |-> JStr(""),
           notes |-> JStr(""),
           kb_hits |-> JList(hits) ])

\* generate_base_roadmap once every query is answered; founds[i] is what the
\* index returned for the i-th subskill
generate_base_roadmap(canonical_roadmap, kb, founds) ==
    LET subs == Get(canonical_roadmap, "subskills", JList(<<>>)).l
    IN JMap([ job_role |-> Get(canonical_roadmap, "job_role", JNull),
              version |-> Get(canonical_roadmap, "version", JNull),
              subskills |-> JList([i \in DOMAIN subs |->
                  mapped_subskill(subs[i],
                      query_hits(kb.rows, Get(subs[i], "name", JStr("")).s,
                                 founds[i], DEFAULT_THRESHOLD))]) ])

CanonicalSubskills(i) ==
    { JMap([id |-> JStr(<<"S1", "S2", "S3", "S4">>[i]), name |-> JStr("HTML CSS"),
            keywords |-> JList(<<"html">>)]),
      JMap([id |-> JStr(<<"S1", "S2", "S3", "S4">>[i]), name |-> JStr("Java")]),
      JMap([id |-> JStr(<<"S1", "S2", "S3", "S4">>[i])]) }

CanonicalRoadmaps ==
    UNION {{JMap([job_role |-> JStr("Android Developer"), version |-> JStr("1"),
                  subskills |-> JList(subs)]) :
                subs \in {ss \in [1..n -> UNION {CanonicalSubskills(i) : i \in 1..n}] :
                            \A i \in 1..n : ss[i] \in CanonicalSubskills(i)}} :
            n \in 0..MaxCanonical}

\* the searches of the mapper, each of topk = 10 pairs: nothing found; four
\* courses, then six tutorials; the same, least similar first in the frame;
\* the first rows of the frame
MapperSearches ==
    LET run(ids) == [i \in 1..10 |-> IF i <= Len(ids) THEN <<ids[i], RInt(0)>>
                                      ELSE Padding]
    IN { run(<<>>),
         run(<<0, 5, 6, 7, 3, 8, 9, 10, 11, 12>>),
         run(<<12, 11, 10, 9, 8, 3, 7, 6, 5, 0>>),
         run(<<1, 0, 2, 3, 4>>) }

GenerateBaseRoadmap ==
    /\ last_op = "init"
    /\ \E canonical \in CanonicalRoadmaps :
        LET n == Len(canonical.m.subskills.l)
        IN /\ roadmap' = canonical
           /\ _kb' = IF n = 0 THEN _kb
                     ELSE after_init(_kb, "kb", LoadedKb, artifacts)
           /\ _index' = IF n = 0 THEN _index
                        ELSE after_init(_index, "index", LoadedIndex, artifacts)
           /\ _model' = IF n = 0 THEN _model
                        ELSE after_init(_model, "model", LoadedModel, artifacts)
           /\ _model_cache' = cache_after(_model_cache, _model', _model)
           /\ IF n > 0 /\ (_kb' = JNull \/ _index' = JNull \/ _model' = JNull)
              THEN /\ kb_query' = [founds |-> <<>>]
                   /\ base_roadmap' = Raised
              ELSE \E founds \in [1..n -> MapperSearches] :
                      /\ kb_query' = [founds |-> founds]
                      /\ base_roadmap' = generate_base_roadmap(
                                              canonical, _kb', founds)
    /\ last_op' = "generate_base_roadmap"
    /\ UNCHANGED <<artifacts, kb_hits, course_progress, thresholds,
                   skills_status, filtered, profile, response, base, overlay,
                   third, merged>>
    /\ UNCHANGED rt_vars
    /\ UNCHANGED <<ROADMAP_DATA, svc_vars>>

NextScorer == InitKbRefs \/ Query \/ GenerateBaseRoadmap

SpecScorer == InitScorer /\ [][NextScorer]_vars

(***************************************************************************)
(* Properties of the retrieval scorer                                      *)
(***************************************************************************)
Queried == last_op = "query_kb_for_subskill"
Answered == Queried /\ kb_hits.t = "list"

\* the positions of the search result that name a row of the frame
ValidCandidates ==
    {c \in DOMAIN kb_query.found :
        kb_query.found[c][1] >= 0 /\ kb_query.found[c][1] < Len(KB_ROWS)}

RowOf(c) == KB_ROWS[kb_query.found[c][1] + 1]
DistanceOf(c) == kb_query.found[c][2]
ScoreOf(c) == final_score(kb_query.subskill_name, RowOf(c), DistanceOf(c))
IdOf(c) == IF RowOf(c).id = JNull THEN JNum(RInt(kb_query.found[c][1]))
           ELSE RowOf(c).id

\* the position in the search result of the candidate a hit was made from
CandidateOf(hit) == CHOOSE c \in ValidCandidates : IdOf(c) = hit.m.id

\* C14: the returned list has non-increasing scores, no hit below the
\* threshold, and a hit for every candidate with a row in the frame whose
\* score reaches the threshold
C14_RankedAboveThreshold ==
    Answered =>
        \A hits \in {kb_hits.l} :
            /\ \A i, j \in DOMAIN hits :
                  i < j => RGe(hits[i].m.score.v, hits[j].m.score.v)
            /\ \A i \in DOMAIN hits :
                  RGe(hits[i].m.score.v, kb_query.score_threshold)
            /\ \A c \in ValidCandidates :
                  RGe(ScoreOf(c), kb_query.score_threshold) =>
                      \E i \in DOMAIN hits : hits[i].m.id = IdOf(c)

\* three candidates: the last one ranks first, the first one is below the
\* threshold, the middle one has no row in the frame
C14_Witness ==
    /\ Answered
    /\ Len(kb_query.found) = 3
    /\ kb_query.found[2][1] = Len(KB_ROWS)
    /\ 1 \in ValidCandidates /\ 3 \in ValidCandidates
    /\ RLt(ScoreOf(1), kb_query.score_threshold)
    /\ Len(kb_hits.l) = 1
    /\ kb_hits.l[1].m.id = IdOf(3)

\* the keywords a row declares
DeclaredKeywords(row) ==
    LET v == row.keywords
    IN CASE v.t \in {"array", "list"} -> SeqRange(v.l)
         [] v.t = "str" /\ v.s = "" -> {}
         [] v.t = "str" /\ starts_with_bracket(v.s) ->
                IF json_loads(v.s) = Raised THEN {}
                ELSE SeqRange(json_loads(v.s).l)
         [] v.t = "str" -> {v.s}
         [] OTHER -> {}

ClaimedScore(subskill_name, row, dist) ==
    LET q == normalize_text(subskill_name)
        shared == word_tokens(subskill_name) \cap word_tokens(title_of(row))
    IN RAdd(RAdd(RAdd(RNeg(dist), RTimes(Rat(15, 100), Cardinality(shared))),
                 IF lower(type_of(row)) = "course" THEN Rat(30, 100) ELSE RInt(0)),
            IF \E w \in DeclaredKeywords(row) :
                    is_in(normalize_text(w), q) \/ is_in(q, normalize_text(w))
            THEN Rat(25, 100) ELSE RInt(0))

\* C15: the score of every hit is -distance + 0.15 x (word tokens shared by
\* the query and the title) + 0.30 for a course + 0.25 when a declared
\* keyword, normalized, is inside or contains the normalized query
C15_ScoreFormula ==
    Answered =>
        \A i \in DOMAIN kb_hits.l :
            \A c \in {CandidateOf(kb_hits.l[i])} :
                kb_hits.l[i].m.score.v =
                    ClaimedScore(kb_query.subskill_name, RowOf(c), DistanceOf(c))

\* C16 as stated: hits of equal score appear in the order of their rows in
\* the frame
C16_TiesInCatalogOrder ==
    Answered =>
        \A hits \in {kb_hits.l} :
            \A i, j \in DOMAIN hits :
                (i < j /\ hits[i].m.score = hits[j].m.score) =>
                    kb_query.found[CandidateOf(hits[i])][1]
                        < kb_query.found[CandidateOf(hits[j])][1]

\* C16 as the code has it: hits of equal score appear in the order in which
\* the index returned their candidates
C16_TiesInSearchOrder ==
    Answered =>
        \A hits \in {kb_hits.l} :
            \A i, j \in DOMAIN hits :
                (i < j /\ hits[i].m.score = hits[j].m.score) =>
                    CandidateOf(hits[i]) < CandidateOf(hits[j])

\* two hits of equal score, the later row of the frame first
C16_Witness ==
    /\ Answered
    /\ Len(kb_hits.l) = 2
    /\ kb_hits.l[1].m.score = kb_hits.l[2].m.score
    /\ CandidateOf(kb_hits.l[1]) < CandidateOf(kb_hits.l[2])
    /\ kb_query.found[CandidateOf(kb_hits.l[1])][1]
            > kb_query.found[CandidateOf(kb_hits.l[2])][1]

\* one of the three is neither set nor loadable when the call starts
MissingAfterInit ==
    \/ _kb = JNull /\ "kb" \notin artifacts
    \/ _index = JNull /\ "index" \notin artifacts
    \/ _model = JNull /\ "model" \notin artifacts

\* C17: a query made while the knowledge base, the index or the model is
\* neither set nor loadable raises and returns no list, and a
\* generate_base_roadmap call that makes such a query raises as well
C17_UninitializedRaises ==
    [][ /\ last_op' = "query_kb_for_subskill" =>
              /\ MissingAfterInit => kb_hits' = Raised
              /\ ~MissingAfterInit => kb_hits'.t = "list"
        /\ (last_op' = "generate_base_roadmap"
                /\ roadmap'.m.subskills.l # <<>>) =>
              /\ MissingAfterInit => base_roadmap' = Raised
              /\ ~MissingAfterInit => base_roadmap'.t = "map" ]_vars

\* the knowledge base was handed in, the model can not be loaded: the query
\* raises
C17_Witness ==
    /\ Queried
    /\ _kb = LoadedKb /\ _index = LoadedIndex /\ _model = JNull
    /\ artifacts = {"kb", "index"}
    /\ kb_hits = Raised

Mapped == last_op = "generate_base_roadmap" /\ base_roadmap.t = "map"

\* C18: every subskill is mapped from the hits of a query with its name and
\* topk 10: to the titles of the first 3 hits of type course and of the
\* first 5 hits of type tutorial, in rank order; with no hit both are empty
C18_MappedTitles ==
    Mapped =>
        \A i \in DOMAIN base_roadmap.m.subskills.l :
            \A entry \in {base_roadmap.m.subskills.l[i].m} :
                \A hits \in {query_hits(KB_ROWS, entry.name.s,
                                        kb_query.founds[i], DEFAULT_THRESHOLD)} :
                    /\ Len(kb_query.founds[i]) = 10
                    /\ entry.mapped_courses.l =
                          Take(titles_of_type(hits, "course"), 3)
                    /\ entry.mapped_tutorials.l =
                          Take(titles_of_type(hits, "tutorial"), 5)
                    /\ hits = <<>> =>
                          /\ entry.mapped_courses.l = <<>>
                          /\ entry.mapped_tutorials.l = <<>>

(***************************************************************************)
(* runtime.py: load_runtime                                                *)
(***************************************************************************)
MaxThreads == 2     \* threads that call load_runtime
MaxCalls == 2       \* calls of load_runtime one thread makes

Threads == 1..MaxThreads
Resources == <<"kb", "index", "model", "intent">>

\* "if _runtime:" before the lock is taken: a dict is true when it has a key
loaded_unlocked(rt) == rt # {}

\* an "if _runtime:" under the lock that never finds the runtime loaded
never_loaded(rt) == FALSE

\* "if _runtime:" under the lock
loaded_locked(rt) == rt # {}

NoReturn == [t |-> "none"]
\* return _runtime at source line at: the keys the dict has at that moment
Return(at) == [t |-> "runtime", keys |-> _runtime, at |-> at]

InitRuntime ==
    /\ _runtime = {} /\ _lock = 0
    /\ pc = [t \in Threads |-> "idle"]
    /\ calls = [t \in Threads |-> 0]
    /\ returned = [t \in Threads |-> NoReturn]
    /\ loads = [r \in SeqRange(Resources) |-> 0]
    /\ roadmap = JNull /\ course_progress = <<>> /\ thresholds = JNull
    /\ skills_status = NotRun
    /\ filtered = NotRun /\ profile = NotRun /\ response = NotRun
    /\ last_op = "init"
    /\ base = NotRun /\ overlay = NotRun /\ third = NotRun /\ merged = NotRun
    /\ KbIdle
    /\ DataIdle /\ SvcIdle

rt_frame == <<app_vars, kb_vars, last_op, ROADMAP_DATA, svc_vars>>

\* a thread calls load_runtime
Call(t) ==
    /\ pc[t] \in {"idle", "done", "raised"}
    /\ calls[t] < MaxCalls
    /\ calls' = [calls EXCEPT ![t] = @ + 1]
    /\ pc' = [pc EXCEPT ![t] = "check"]
    /\ returned' = [returned EXCEPT ![t] = NoReturn]
    /\ UNCHANGED <<_runtime, _lock, loads, rt_frame>>

\* if _runtime: return _runtime
Check(t) ==
    /\ pc[t] = "check"
    /\ IF loaded_unlocked(_runtime)
       THEN /\ returned' = [returned EXCEPT ![t] = Return(14)]
            /\ pc' = [pc EXCEPT ![t] = "done"]
       ELSE /\ pc' = [pc EXCEPT ![t] = "acquire"]
            /\ UNCHANGED returned
    /\ UNCHANGED <<_runtime, _lock, calls, loads, rt_frame>>

\* with _lock:
Acquire(t) ==
    /\ pc[t] = "acquire"
    /\ _lock = 0
    /\ _lock' = t
    /\ pc' = [pc EXCEPT ![t] = "recheck"]
    /\ UNCHANGED <<_runtime, calls, returned, loads, rt_frame>>

\* if _runtime: return _runtime, under the lock
Recheck(t) ==
    /\ pc[t] = "recheck"
    /\ IF loaded_locked(_runtime)
       THEN /\ returned' = [returned EXCEPT ![t] = Return(18)]
            /\ pc' = [pc EXCEPT ![t] = "done"]
            /\ _lock' = 0
       ELSE /\ pc' = [pc EXCEPT ![t] = "kb"]
            /\ UNCHANGED <<returned, _lock>>
    /\ UNCHANGED <<_runtime, calls, loads, rt_frame>>

\* _runtime[r] = <loader of r>(), for the resource r the thread is at
Load(t) ==
    /\ \E i \in DOMAIN Resources :
          /\ pc[t] = Resources[i]
          /\ _runtime' = _runtime \cup {Resources[i]}
          /\ loads' = [loads EXCEPT ![Resources[i]] = @ + 1]
          /\ pc' = [pc EXCEPT ![t] = IF i < Len(Resources) THEN Resources[i + 1]
                                     ELSE "return"]
    /\ UNCHANGED <<_lock, calls, returned, rt_frame>>

\* the loader of the resource the thread is at raises: the with statement
\* releases the lock and the call ends with the exception
LoadRaises(t) ==
    /\ pc[t] \in SeqRange(Resources)
    /\ pc' = [pc EXCEPT ![t] = "raised"]
    /\ _lock' = 0
    /\ UNCHANGED <<_runtime, calls, returned, loads, rt_frame>>

\* return _runtime at the end of the with block
ReturnLoaded(t) ==
    /\ pc[t] = "return"
    /\ returned' = [returned EXCEPT ![t] = Return(34)]
    /\ pc' = [pc EXCEPT ![t] = "done"]
    /\ _lock' = 0
    /\ UNCHANGED <<_runtime, calls, loads, rt_frame>>

NextRuntime ==
    \E t \in Threads :
        \/ Call(t) \/ Check(t) \/ Acquire(t) \/ Recheck(t)
        \/ Load(t) \/ LoadRaises(t) \/ ReturnLoaded(t)

SpecRuntime == InitRuntime /\ [][NextRuntime]_vars

(***************************************************************************)
(* Properties of load_runtime                                              *)
(***************************************************************************)
\* C19: under every interleaving of calls, the knowledge base, the index,
\* the model and the intent pipeline are each loaded at most once
C19_LoadedOnce == \A r \in SeqRange(Resources) : loads[r] <= 1

\* two first calls overlapped: the second thread passed the first check
\* while nothing was loaded, waited for the lock, and returned from under it
\* without loading
C19_Witness ==
    /\ returned[1] = [t |-> "runtime", keys |-> SeqRange(Resources), at |-> 34]
    /\ returned[2] = [t |-> "runtime", keys |-> SeqRange(Resources), at |-> 18]
    /\ calls[2] = 1
    /\ \A r \in SeqRange(Resources) : loads[r] = 1

\* C20: every call that returns, whatever another call is doing, returns a
\* runtime that has kb, index, model and intent
C20_ReturnsPopulated ==
    \A t \in Threads :
        returned[t] # NoReturn => returned[t].keys = SeqRange(Resources)

\* C29: when no call is inside the load (so whatever is missing from the
\* runtime was left missing by a load step that raised), a call that
\* returns, returns a runtime that has kb, index, model and intent
C29_LaterCallPopulated ==
    [][\A t \in Threads :
          (/\ returned'[t] # returned[t]
           /\ returned'[t] # NoReturn
           /\ \A u \in Threads : pc[u] \notin SeqRange(Resources))
             => returned'[t].keys = SeqRange(Resources)
      ]_vars

(***************************************************************************)
(* kb_utils.py: the automatic initialisation of query_kb_for_subskill      *)
(* under concurrent first calls                                            *)
(***************************************************************************)
KbResources == <<"kb", "index", "model">>

\* the module global that init_from_embeddings fills for resource r
global_of(r, kb, index, model) ==
    CASE r = "kb" -> kb [] r = "index" -> index [] r = "model" -> model

\* "_kb is None or _index is None or _model is None"
refs_unset(kb, index, model) == kb = JNull \/ index = JNull \/ model = JNull

\* where a thread goes after the "if" of resource number i
after_resource(i) ==
    IF i < Len(KbResources) THEN <<"if", KbResources[i + 1]>> ELSE <<"line 85">>

InitKbThreads ==
    /\ _kb = JNull /\ _index = JNull /\ _model = JNull
    /\ _model_cache = JNull
    /\ artifacts \in ArtifactSets
    /\ kb_query = NotRun /\ kb_hits = NotRun /\ base_roadmap = NotRun
    /\ _runtime = {} /\ _lock = 0
    /\ pc = [t \in Threads |-> <<"idle">>]
    /\ calls = [t \in Threads |-> 0]
    /\ returned = [t \in Threads |-> NoReturn]
    /\ loads = [r \in SeqRange(KbResources) |-> 0]
    /\ roadmap = JNull /\ course_progress = <<>> /\ thresholds = JNull
    /\ skills_status = NotRun
    /\ filtered = NotRun /\ profile = NotRun /\ response = NotRun
    /\ last_op = "init"
    /\ base = NotRun /\ overlay = NotRun /\ third = NotRun /\ merged = NotRun
    /\ DataIdle /\ SvcIdle

kb_frame == <<app_vars, last_op, artifacts, kb_query, kb_hits, base_roadmap,
              _runtime, _lock, ROADMAP_DATA, svc_vars>>

\* a thread makes its first call of query_kb_for_subskill
QueryCall(t) ==
    /\ pc[t] = <<"idle">>
    /\ calls[t] = 0
    /\ calls' = [calls EXCEPT ![t] = 1]
    /\ pc' = [pc EXCEPT ![t] = <<"line 82">>]
    /\ UNCHANGED <<_kb, _index, _model, _model_cache, returned, loads, kb_frame>>

\* if _kb is None or _index is None or _model is None: init_from_embeddings()
QueryGuard(t) ==
    /\ pc[t] = <<"line 82">>
    /\ pc' = [pc EXCEPT ![t] = IF refs_unset(_kb, _index, _model)
                               THEN <<"if", KbResources[1]>>
                               ELSE <<"line 85">>]
    /\ UNCHANGED <<_kb, _index, _model, _model_cache, calls, returned, loads,
                   kb_frame>>

\* init_from_embeddings: "if _kb is None:", and the same for the other two
InitTest(t) ==
    /\ \E i \in DOMAIN KbResources :
          /\ pc[t] = <<"if", KbResources[i]>>
          /\ pc' = [pc EXCEPT ![t] =
                      IF global_of(KbResources[i], _kb, _index, _model) = JNull
                      THEN <<"try", KbResources[i]>>
                      ELSE after_resource(i)]
    /\ UNCHANGED <<_kb, _index, _model, _model_cache, calls, returned, loads,
                   kb_frame>>

\* _kb = load_kb() and _index = load_faiss(), with "except: ... = None" when
\* the artifact cannot be read
InitLoad(t) ==
    /\ \E i \in 1..2 :
        LET r == KbResources[i]
            ok == r \in artifacts
        IN /\ pc[t] = <<"try", r>>
           /\ _kb' = IF r # "kb" THEN _kb ELSE IF ok THEN LoadedKb ELSE JNull
           /\ _index' = IF r # "index" THEN _index
                        ELSE IF ok THEN LoadedIndex ELSE JNull
           /\ loads' = IF ok THEN [loads EXCEPT ![r] = @ + 1] ELSE loads
           /\ pc' = [pc EXCEPT ![t] = after_resource(i)]
    /\ UNCHANGED <<_model, _model_cache, calls, returned, kb_frame>>

\* _model = get_model(): get_model tests "if _model_cache is None:"
GetModelTest(t) ==
    /\ pc[t] = <<"try", "model">>
    /\ pc' = [pc EXCEPT ![t] = IF _model_cache = JNull
                               THEN <<"line 28">> ELSE <<"line 29">>]
    /\ UNCHANGED <<_kb, _index, _model, _model_cache, calls, returned, loads,
                   kb_frame>>

\* _model_cache = SentenceTransformer(model_path); when it raises, the
\* except clause of init_from_embeddings sets _model = None
GetModelLoad(t) ==
    /\ pc[t] = <<"line 28">>
    /\ IF "model" \in artifacts
       THEN /\ _model_cache' = LoadedModel
            /\ loads' = [loads EXCEPT !["model"] = @ + 1]
            /\ pc' = [pc EXCEPT ![t] = <<"line 29">>]
            /\ UNCHANGED _model
       ELSE /\ _model' = JNull
            /\ pc' = [pc EXCEPT ![t] = <<"line 85">>]
            /\ UNCHANGED <<_model_cache, loads>>
    /\ UNCHANGED <<_kb, _index, calls, returned, kb_frame>>

\* return _model_cache, assigned to _model by init_from_embeddings
GetModelReturn(t) ==
    /\ pc[t] = <<"line 29">>
    /\ _model' = _model_cache
    /\ pc' = [pc EXCEPT ![t] = <<"line 85">>]
    /\ UNCHANGED <<_kb, _index, _model_cache, calls, returned, loads, kb_frame>>

\* the second test of the globals: raise RuntimeError, or go on to the search
QueryRecheck(t) ==
    /\ pc[t] = <<"line 85">>
    /\ IF refs_unset(_kb, _index, _model)
       THEN /\ returned' = [returned EXCEPT ![t] = Raised]
            /\ pc' = [pc EXCEPT ![t] = <<"raised">>]
       ELSE /\ returned' = [returned EXCEPT ![t] = [t |-> "searching"]]
            /\ pc' = [pc EXCEPT ![t] = <<"line 88">>]
    /\ UNCHANGED <<_kb, _index, _model, _model_cache, calls, loads, kb_frame>>

NextKbThreads ==
    \E t \in Threads :
        \/ QueryCall(t) \/ QueryGuard(t) \/ InitTest(t) \/ InitLoad(t)
        \/ GetModelTest(t) \/ GetModelLoad(t) \/ GetModelReturn(t)
        \/ QueryRecheck(t)

SpecKbThreads == InitKbThreads /\ [][NextKbThreads]_vars

\* C21: under every interleaving of concurrent first calls made while the
\* three references are unset, the automatic initialisation loads the
\* knowledge base, the index and the model at most once each
C21_AutoInitLoadsOnce == \A r \in SeqRange(KbResources) : loads[r] <= 1

(***************************************************************************)
(* The calculator and the filter on the profile of a request, as handle_   *)
(* query calls them (handler.py 633-642), for profiles of any shape        *)
(***************************************************************************)
\* a key that a dict does not have
Missing == [t |-> "missing"]

\* the values one course name can have in course_progress
ProgressValues(name) ==
    IF name = "HTML"
    THEN {JNum(RInt(100)), JNum(RInt(0)), JStr("abc"), JStr("80"), JNull}
    ELSE {JNum(RInt(100)), JStr("abc")}

\* course_progress dicts over the names of courses 1 and 2
ProgressDicts ==
    { JODict(SelectSeq(<<<<"HTML", h>>, <<"css", c>>>>,
                       LAMBDA e : e[2] # Missing)) :
        h \in ProgressValues("HTML") \cup {Missing},
        c \in ProgressValues("css") \cup {Missing} }

CourseProgressValues ==
    ProgressDicts \cup
        {Missing, JNull, JList(<<>>), JList(<<JStr("HTML")>>), JStr("HTML"),
         JNum(RInt(80))}

\* a dict with the given entries, those whose value is Missing left out
DictOf(keys, value) ==
    JMap([k \in {x \in keys : value[x] # Missing} |-> value[k]])

PlatformDataValues ==
    {Missing, JNull, JStr("none"), JList(<<>>)} \cup
        { DictOf({"course_progress"}, [course_progress |-> c]) :
            c \in CourseProgressValues }

RoadmapProgressValues ==
    { Missing, JNull,
      JMap([job_role |-> JStr("Android Developer"),
            skills_status |-> JMap([F1 |-> JMap([level |-> JStr("Advanced")])])]),
      JMap([skills_status |-> JStr("none")]) }

ProfileOf(pd, rp) ==
    DictOf({"platform_data", "roadmap_progress"},
           [platform_data |-> pd, roadmap_progress |-> rp])

RequestProfiles ==
    {JNull, JStr("profile"), JList(<<>>)} \cup
        { ProfileOf(pd, rp) : pd \in PlatformDataValues,
                              rp \in RoadmapProgressValues }

InitProfile ==
    /\ ROADMAP_DATA = roadmaps_json
    /\ roadmap \in { generate_roadmap_response(ROADMAP_DATA[i].m.job_role.s) :
                        i \in DOMAIN ROADMAP_DATA }
    /\ profile \in RequestProfiles
    /\ course_progress = <<>> /\ thresholds = JNull
    /\ skills_status = NotRun /\ filtered = NotRun /\ response = NotRun
    /\ last_op = "init"
    /\ base = NotRun /\ overlay = NotRun /\ third = NotRun /\ merged = NotRun
    /\ KbIdle
    /\ RtIdle
    /\ SvcIdle

\* skill_status = generate_skill_progress_for_roadmap(roadmap, profile,
\* COURSE_CATALOG)
ComputeStatus ==
    /\ last_op = "init"
    /\ skills_status' = generate_skill_progress_for_roadmap(
                            roadmap, profile, COURSE_CATALOG, JNull)
    /\ last_op' = "generate_skill_progress_for_roadmap"
    /\ UNCHANGED <<roadmap, course_progress, thresholds, filtered, profile,
                   response, base, overlay, third, merged>>
    /\ UNCHANGED kb_vars
    /\ UNCHANGED rt_vars
    /\ UNCHANGED <<ROADMAP_DATA, svc_vars>>

\* filtered_subskills = filter_roadmap_for_user(roadmap, skill_status),
\* reached when the calculator returned
FilterForUser ==
    /\ last_op = "generate_skill_progress_for_roadmap"
    /\ skills_status # Raised
    /\ filtered' = JList(filter_roadmap_for_user(roadmap, skills_status))
    /\ last_op' = "filter_roadmap_for_user"
    /\ UNCHANGED <<roadmap, course_progress, thresholds, skills_status, profile,
                   response, base, overlay, third, merged>>
    /\ UNCHANGED kb_vars
    /\ UNCHANGED rt_vars
    /\ UNCHANGED <<ROADMAP_DATA, svc_vars>>

NextProfile == ComputeStatus \/ FilterForUser

SpecProfile == InitProfile /\ [][NextProfile]_vars

(***************************************************************************)
(* Properties of the calculator and the filter on request profiles         *)
(***************************************************************************)
Computed ==
    last_op \in {"generate_skill_progress_for_roadmap",
                 "filter_roadmap_for_user"}

\* a field of a dict, Missing when the dict does not have it (or is no dict)
Field(d, k) == IF d.t = "map" /\ k \in DOMAIN d.m THEN d.m[k] ELSE Missing

GivenPlatformData == Field(profile, "platform_data")
GivenProgress == Field(GivenPlatformData, "course_progress")

\* the profile is no map, or its platform_data or course_progress is
\* missing, null or of the wrong type
ProgressUnusable == GivenProgress.t # "odict"

\* C23: the calculator and the filter never raise on malformed or missing
\* profile fields: for a profile that is not a map, or whose platform_data
\* or course_progress is missing, null or of the wrong type, the progress
\* used is empty, every subskill resolves to level not_started, and the
\* filter keeps every subskill
C23_DefensiveDefaults ==
    (Computed /\ ProgressUnusable) =>
        /\ skills_status # Raised
        /\ skills_status = generate_skill_progress_for_roadmap(
                              roadmap, JMap(EmptyMap), COURSE_CATALOG, JNull)
        /\ \A sid \in DOMAIN skills_status.m :
              skills_status.m[sid].m.level = JStr("not_started")
        /\ last_op = "filter_roadmap_for_user" =>
              filtered = roadmap.m.subskills

\* the request's profile with other entries of course_progress
WithProgress(items) ==
    JMap([profile.m EXCEPT !.platform_data =
            JMap([@.m EXCEPT !.course_progress = JODict(items)])])

NonNumeric(v) == to_float(v) = Raised

\* the given course_progress with every non-numeric value replaced by 0
ZeroedProgress ==
    [i \in DOMAIN GivenProgress.items |->
        IF NonNumeric(GivenProgress.items[i][2])
        THEN <<GivenProgress.items[i][1], JNum(RInt(0))>>
        ELSE GivenProgress.items[i]]

\* the given course_progress without its non-numeric entries
NumericProgress ==
    SelectSeq(GivenProgress.items, LAMBDA e : ~NonNumeric(e[2]))

StatusFor(items) ==
    generate_skill_progress_for_roadmap(roadmap, WithProgress(items),
                                        COURSE_CATALOG, JNull)

\* C24 as stated: an entry whose value is not numeric counts as resolved
\* with percent 0 in its tier's average, exactly as if the stored value
\* were 0
C24_CoercedToZero ==
    (Computed /\ ~ProgressUnusable) =>
        /\ skills_status # Raised
        /\ skills_status = StatusFor(ZeroedProgress)

\* C24, amended: an entry whose value is not numeric is ignored without an
\* error: its course is unresolved and left out of its tier's average,
\* exactly as if the entry were absent
C24_IgnoredAsAbsent ==
    (Computed /\ ~ProgressUnusable) =>
        /\ skills_status # Raised
        /\ skills_status = StatusFor(NumericProgress)

\* a non-numeric entry for a mapped course beside a numeric one: the status
\* is not the one a stored 0 gives
C24_Witness ==
    /\ Computed /\ ~ProgressUnusable
    /\ \E i \in DOMAIN GivenProgress.items :
          /\ GivenProgress.items[i][1] = "HTML"
          /\ NonNumeric(GivenProgress.items[i][2])
    /\ \E i \in DOMAIN GivenProgress.items :
          ~NonNumeric(GivenProgress.items[i][2])
    /\ skills_status # Raised
    /\ skills_status = StatusFor(NumericProgress)
    /\ skills_status # StatusFor(ZeroedProgress)

\* the request's profile with another roadmap_progress (or without one)
WithRoadmapProgress(rp) == ProfileOf(GivenPlatformData, rp)

RequestedRoles ==
    {"Android Developer", "front-end web developer", "iOS Developer"}

\* the levels a request's skill_status gives the subskills of the data
DataStatuses ==
    { JMap([sid \in {"A1", "A2", "F1", "F2"} |->
              JMap([status |-> JStr(level[IF sid \in {"A1", "F1"}
                                          THEN 1 ELSE 2])])]) :
        level \in [1..2 -> {"beginner", "intermediate", "advanced"}] }

InitData ==
    /\ ROADMAP_DATA = roadmaps_json
    /\ roadmap = NotRun /\ filtered = NotRun /\ skills_status = NotRun
    /\ course_progress = <<>> /\ thresholds = JNull
    /\ profile = NotRun /\ response = NotRun
    /\ last_op = "init"
    /\ base = NotRun /\ overlay = NotRun /\ third = NotRun /\ merged = NotRun
    /\ KbIdle
    /\ RtIdle
    /\ SvcIdle

data_frame == <<course_progress, thresholds, profile, response, base, overlay,
                third, merged, kb_vars, rt_vars, svc_vars>>

\* roadmap = generate_roadmap_response(job_role)
GenerateRoadmapResponse ==
    /\ \E job_role \in RequestedRoles : roadmap' = response_object(job_role)
    /\ last_op' = "generate_roadmap_response"
    /\ UNCHANGED <<ROADMAP_DATA, filtered, skills_status, data_frame>>

\* filter_roadmap_for_user(roadmap, skill_status) on the roadmap last made
FilterRoadmap ==
    /\ roadmap # NotRun
    /\ \E skill_status \in DataStatuses :
          \E kept \in {filter_for_user(roadmap, skill_status, ROADMAP_DATA)} :
              /\ skills_status' = skill_status
              /\ filtered' = JList(values_of(kept.out))
              /\ ROADMAP_DATA' = kept.data
    /\ last_op' = "filter_roadmap_for_user"
    /\ UNCHANGED <<roadmap, data_frame>>

\* handler.py 620-645 for a request whose role is known: the roadmap is
\* made, the status computed, the roadmap filtered by it and the result
\* stored into the roadmap
RoadmapFlow ==
    /\ \E job_role \in RequestedRoles, cp \in FlowProgressMaps :
          \E rmap \in {response_object(job_role)} :
              IF ~Truthy(Get(rmap.val, "ok", JNull))
              THEN /\ roadmap' = rmap
                   /\ UNCHANGED <<ROADMAP_DATA, filtered, skills_status>>
              ELSE \E skill_status \in {generate_skill_progress_for_roadmap(
                          rmap.val, with_platform_data(JMap(EmptyMap), cp),
                          COURSE_CATALOG, JNull)} :
                   \E kept \in {filter_for_user(rmap, skill_status,
                                                ROADMAP_DATA)} :
                      /\ skills_status' = skill_status
                      /\ filtered' = JList(values_of(kept.out))
                      /\ roadmap' = assign_subskills(rmap, kept.out)
                      /\ ROADMAP_DATA' = data_write(kept.data, rmap.at,
                                            "subskills",
                                            JList(values_of(kept.out)))
    /\ last_op' = "handle_query"
    /\ UNCHANGED data_frame

NextData == GenerateRoadmapResponse \/ FilterRoadmap \/ RoadmapFlow

SpecData == InitData /\ [][NextData]_vars

\* C26: the canonical roadmap data loaded at import, every subskill and its
\* tier maps included, is unchanged after any sequence of
\* generate_roadmap_response, filter_roadmap_for_user and handle_query
\* roadmap requests, for any roles and any profiles
C26_RoadmapDataUnchanged ==
    /\ ROADMAP_DATA = roadmaps_json
    /\ last_op = "filter_roadmap_for_user" =>
          filtered.l = filter_roadmap_for_user(roadmap.val, skills_status)

\* the filter dropped an advanced subskill of the data and removed the
\* beginner tier of the other one, on the list of ROADMAP_DATA itself
C26_Witness ==
    /\ last_op = "filter_roadmap_for_user"
    /\ roadmap.subs = item_subskills(1)
    /\ Len(filtered.l) = 1
    /\ filtered.l[1].m.id = JStr("A2")
    /\ DOMAIN filtered.l[1].m.levels.m = {"intermediate", "advanced"}
    /\ DOMAIN ROADMAP_DATA[1].m.subskills.l[2].m.levels.m =
          {"beginner", "intermediate", "advanced"}

(***************************************************************************)
(* main.py: the warmup thread, GET /ready and POST /chat                   *)
(***************************************************************************)
MaxRequests == 1    \* POST /chat requests
MaxProbes == 1      \* GET /ready requests

max_wait == 60

Requests == 1..MaxRequests

\* the status code of GET /ready
ready_status(is_ready) == IF is_ready THEN 200 ELSE 503

\* "while not _is_ready and waited < max_wait"
keeps_waiting(is_ready, waited) == ~is_ready /\ waited < max_wait

\* a chat() that goes on to the handlers whatever the flag is after the wait
after_wait_dispatch(is_ready) == "dispatch"

\* "if not _is_ready: return {ok: False, error: service_not_ready}" after
\* the wait
after_wait(is_ready) == IF ~is_ready THEN "service_not_ready" ELSE "dispatch"

InitService ==
    /\ _is_ready = FALSE /\ _warmup_lock = 0 /\ warmup = "idle"
    /\ chat = [r \in Requests |->
                  [pc |-> "new", waited |-> 0, mode |-> "none",
                   answer |-> "none"]]
    /\ ready_answers = <<>>
    /\ roadmap = NotRun /\ course_progress = <<>> /\ thresholds = JNull
    /\ skills_status = NotRun
    /\ filtered = NotRun /\ profile = NotRun /\ response = NotRun
    /\ last_op = "init"
    /\ base = NotRun /\ overlay = NotRun /\ third = NotRun /\ merged = NotRun
    /\ KbIdle
    /\ RtIdle
    /\ DataIdle

svc_frame == <<app_vars, last_op, kb_vars, rt_vars, ROADMAP_DATA>>

\* lifespan starts the thread; background_warmup enters "with _warmup_lock:"
\* and calls load_runtime()
StartWarmup ==
    /\ warmup = "idle"
    /\ _warmup_lock = 0
    /\ _warmup_lock' = 1
    /\ warmup' = "loading"
    /\ UNCHANGED <<_is_ready, chat, ready_answers, svc_frame>>

\* load_runtime() returns
LoadReturns ==
    /\ warmup = "loading"
    /\ warmup' = "loaded"
    /\ UNCHANGED <<_is_ready, _warmup_lock, chat, ready_answers, svc_frame>>

\* load_runtime() raises
LoadFails ==
    /\ warmup = "loading"
    /\ warmup' = "except"
    /\ UNCHANGED <<_is_ready, _warmup_lock, chat, ready_answers, svc_frame>>

\* _is_ready = True, and the end of the with block
SetReady ==
    /\ warmup = "loaded"
    /\ _is_ready' = TRUE
    /\ _warmup_lock' = 0
    /\ warmup' = "done"
    /\ UNCHANGED <<chat, ready_answers, svc_frame>>

\* except Exception: _is_ready = False, and the end of the with block
HandleFailure ==
    /\ warmup = "except"
    /\ _is_ready' = FALSE
    /\ _warmup_lock' = 0
    /\ warmup' = "failed"
    /\ UNCHANGED <<chat, ready_answers, svc_frame>>

\* GET /ready
Probe ==
    /\ Len(ready_answers) < MaxProbes
    /\ ready_answers' = Append(ready_answers, ready_status(_is_ready))
    /\ UNCHANGED <<_is_ready, _warmup_lock, warmup, chat, svc_frame>>

\* POST /chat arrives: "if not _is_ready:" with waited = 0
Arrive(r) ==
    /\ chat[r].pc = "new"
    /\ chat' = [chat EXCEPT ![r].pc = IF ~_is_ready THEN "while"
                                      ELSE "dispatch"]
    /\ UNCHANGED <<_is_ready, _warmup_lock, warmup, ready_answers, svc_frame>>

\* one round of the while loop: the test holds, await asyncio.sleep(1),
\* waited += 1
Sleep(r) ==
    /\ chat[r].pc = "while"
    /\ keeps_waiting(_is_ready, chat[r].waited)
    /\ chat' = [chat EXCEPT ![r].waited = @ + 1]
    /\ UNCHANGED <<_is_ready, _warmup_lock, warmup, ready_answers, svc_frame>>

\* the test of the while loop fails
LoopExit(r) ==
    /\ chat[r].pc = "while"
    /\ ~keeps_waiting(_is_ready, chat[r].waited)
    /\ chat' = [chat EXCEPT ![r].pc = "line 112"]
    /\ UNCHANGED <<_is_ready, _warmup_lock, warmup, ready_answers, svc_frame>>

\* the test after the loop; waited is not read after it, and is kept only
\* with the answer it led to
AfterWait(r) ==
    /\ chat[r].pc = "line 112"
    /\ chat' = [chat EXCEPT
                  ![r].pc = IF after_wait(_is_ready) = "dispatch"
                            THEN "dispatch" ELSE "answered",
                  ![r].waited = IF after_wait(_is_ready) = "dispatch"
                                THEN 0 ELSE @,
                  ![r].answer = IF after_wait(_is_ready) = "dispatch"
                                THEN @ ELSE after_wait(_is_ready)]
    /\ UNCHANGED <<_is_ready, _warmup_lock, warmup, ready_answers, svc_frame>>

\* mode = body.get("mode", "chat"): handle_job_description_flow(...) or
\* handle_query(...) is called
Dispatch(r) ==
    /\ chat[r].pc = "dispatch"
    /\ \E mode \in {"job_role", "chat"} :
          chat' = [chat EXCEPT ![r].mode = mode, ![r].pc = "handling"]
    /\ UNCHANGED <<_is_ready, _warmup_lock, warmup, ready_answers, svc_frame>>

\* the handler returns, or raises and the except clause answers
HandlerEnds(r) ==
    /\ chat[r].pc = "handling"
    /\ \E raised \in BOOLEAN :
          chat' = [chat EXCEPT
                     ![r].pc = "answered",
                     ![r].answer = IF raised THEN chat[r].mode \o "_failed"
                                   ELSE chat[r].mode]
    /\ UNCHANGED <<_is_ready, _warmup_lock, warmup, ready_answers, svc_frame>>

NextService ==
    \/ StartWarmup \/ LoadReturns \/ LoadFails \/ SetReady \/ HandleFailure
    \/ Probe
    \/ \E r \in Requests :
          \/ Arrive(r) \/ Sleep(r) \/ LoopExit(r) \/ AfterWait(r)
          \/ Dispatch(r) \/ HandlerEnds(r)

SpecService == InitService /\ [][NextService]_vars

load_runtime(rt) == IF rt # {} THEN rt ELSE rt \cup SeqRange(Resources)

\* the keys lines 541-546 read from the runtime
InputKeys ==
    <<"kb", "index", "model", "intent", "skill_titles", "skill_embeddings">>

\* lines 538-567: the first key the runtime lacks raises KeyError, which the
\* except clause turns into the error response
input_stage(rt) ==
    IF \A i \in DOMAIN InputKeys : InputKeys[i] \in rt THEN "passed"
    ELSE "KeyError"

InputError == JMap([response |-> JStr("Error processing input data.")])

EmptyMessage == JMap([response |-> JStr("Pesan tidak boleh kosong.")])

\* the request bodies of POST /chat in chat mode: whether the text is empty
\* and what detect_job_role finds in it
QueryTexts ==
    {[mode |-> "chat", empty |-> TRUE, detected |-> JNull]} \cup
    {[mode |-> "chat", empty |-> FALSE, detected |-> d] :
        d \in DetectedRoles \ {JNull}}

\* the profiles a request can carry: no roadmap yet, or the roadmap
\* progress of an earlier request
QueryProfiles ==
    {JMap(EmptyMap)} \cup
    {JMap([job_role |-> r]) : r \in DetectedRoles \ {JNull}} \cup
    {JMap([roadmap_progress |-> JMap([job_role |-> r, skills_status |-> st])]) :
        r \in DetectedRoles \ {JNull},
        st \in {JNull, JMap([A1 |-> JMap([level |-> JStr("Advanced")])])}}

InitQuery ==
    /\ profile \in QueryProfiles
    /\ course_progress = <<>>
    /\ response = NotRun
    /\ last_op = "init"
    /\ roadmap = NotRun /\ thresholds = JNull
    /\ skills_status = NotRun /\ filtered = NotRun
    /\ base = NotRun /\ overlay = NotRun /\ third = NotRun /\ merged = NotRun
    /\ KbIdle
    /\ RtIdle
    /\ DataIdle /\ SvcIdle

\* background_warmup calls load_runtime() before any request
Warmup ==
    /\ last_op = "init"
    /\ _runtime' = load_runtime(_runtime)
    /\ last_op' = "load_runtime"
    /\ UNCHANGED <<_lock, pc, calls, returned, loads>>
    /\ UNCHANGED <<app_vars, kb_vars, ROADMAP_DATA, svc_vars>>

\* handle_query(user_id, text, profile) for a text that is empty or names a
\* job role
HandleQuery ==
    /\ \E req \in QueryTexts, cp \in FlowProgressMaps :
        \E rt \in {load_runtime(_runtime)} :
          /\ _runtime' = rt
          /\ chat' = <<req>>
          /\ course_progress' = cp
          /\ IF input_stage(rt) # "passed"
             THEN /\ response' = InputError
                  /\ UNCHANGED ROADMAP_DATA
             ELSE IF req.empty
             THEN /\ response' = EmptyMessage
                  /\ UNCHANGED ROADMAP_DATA
             ELSE \E rmap \in {generate_roadmap_response(req.detected.s)} :
                IF ~Truthy(Get(rmap, "ok", JNull))
                THEN /\ response' = RoadmapNotFound
                     /\ UNCHANGED ROADMAP_DATA
                ELSE \E skill_status \in {generate_skill_progress_for_roadmap(
                           rmap, with_platform_data(profile, cp),
                           COURSE_CATALOG, JNull)} :
                     \E filtered_subskills \in
                           {filter_roadmap_for_user(rmap, skill_status)} :
                     \E t1, t2 \in 1..MaxTime :
                         /\ t1 <= t2
                         /\ ROADMAP_DATA' = data_after_request(
                                               req.detected.s, skill_status)
                         /\ response' = roadmap_reply(req.detected.s, profile,
                                             skill_status, filtered_subskills,
                                             t1, t2)
    /\ last_op' = "handle_query"
    /\ UNCHANGED <<roadmap, thresholds, skills_status,
                   filtered, profile, base, overlay, third, merged>>
    /\ UNCHANGED <<_lock, pc, calls, returned, loads>>
    /\ UNCHANGED kb_vars
    /\ UNCHANGED <<_is_ready, _warmup_lock, warmup, ready_answers>>

NextQuery == Warmup \/ HandleQuery

SpecQuery == InitQuery /\ [][NextQuery]_vars

\* the job roles that have a roadmap in the roadmap data
RoadmapRoles == {ROADMAP_DATA[i].m.job_role : i \in DOMAIN ROADMAP_DATA}

\* C28: with the runtime built by load_runtime, handle_query called with a
\* non-empty text in which detect_job_role finds a role of the roadmap data
\* does not end in the "Error processing input data." response: it returns
\* the roadmap response (ok true, intent mode roadmap) whose
\* profile_update.roadmap_progress.job_role is that role
C28_RoadmapResponse ==
    (/\ last_op = "handle_query"
     /\ ~chat[1].empty
     /\ chat[1].detected \in RoadmapRoles)
       => /\ response # InputError
          /\ Get(response, "ok", JNull) = JBool(TRUE)
          /\ Get(Get(response, "intent", JMap(EmptyMap)), "mode", JNull)
                = JStr("roadmap")
          /\ Get(Get(Get(response, "profile_update", JMap(EmptyMap)),
                     "roadmap_progress", JMap(EmptyMap)), "job_role", JNull)
                = chat[1].detected

(***************************************************************************)
(* skill_progress_engine.py: the level of one subskill while the course    *)
(* progress grows                                                          *)
(***************************************************************************)
\* the mapped courses of the subskill that is followed
UpdateMappings ==
    { [beginner |-> <<1>>, intermediate |-> <<2>>, advanced |-> <<3>>],
      [beginner |-> <<>>, intermediate |-> <<1>>, advanced |-> <<2, 3>>],
      [beginner |-> <<1, 2>>, intermediate |-> <<3>>, advanced |-> <<>>],
      [beginner |-> <<1, 2, 3>>, intermediate |-> <<>>, advanced |-> <<>>] }

\* the percents the platform records
UpdatePercents == {0, 50, 100}

\* the names the platform records progress under: those of the catalog
UpdateNames == {COURSE_CATALOG[i].course_name : i \in DOMAIN COURSE_CATALOG}

\* not_started < Beginner < Intermediate < Advanced
level_rank(level) ==
    CASE level = "not_started" -> 0
      [] level = "Beginner" -> 1
      [] level = "Intermediate" -> 2
      [] level = "Advanced" -> 3

InitUpdates ==
    /\ roadmap \in {SubskillOf("S1", mc) : mc \in UpdateMappings}
    /\ course_progress = <<>>
    /\ thresholds = JNull
    /\ skills_status = compute_subskill_progress(
            roadmap, <<>>, build_course_lookup(COURSE_CATALOG), JNull)
    /\ filtered = NotRun /\ profile = NotRun /\ response = NotRun
    /\ last_op = "init"
    /\ base = NotRun /\ overlay = NotRun /\ third = NotRun /\ merged = NotRun
    /\ KbIdle
    /\ RtIdle
    /\ DataIdle /\ SvcIdle

\* the platform records a percent for a course, no lower than the one it
\* had, and compute_subskill_progress is evaluated on the new progress
UpdateProgress ==
    /\ \E name \in UpdateNames, p \in UpdatePercents :
          /\ name \in OKeys(course_progress) =>
                RLt(OGet(course_progress, name), RInt(p))
          /\ course_progress' = OSet(course_progress, name, RInt(p))
          /\ skills_status' = compute_subskill_progress(
                  roadmap, OSet(course_progress, name, RInt(p)),
                  build_course_lookup(COURSE_CATALOG), thresholds)
    /\ last_op' = "compute_subskill_progress"
    /\ UNCHANGED <<roadmap, thresholds, filtered, profile, response,
                   base, overlay, third, merged>>
    /\ UNCHANGED kb_vars
    /\ UNCHANGED rt_vars
    /\ UNCHANGED <<ROADMAP_DATA, svc_vars>>

NextUpdates == UpdateProgress

SpecUpdates == InitUpdates /\ [][NextUpdates]_vars

\* C30: over any sequence of course-progress updates in which no course's
\* percent decreases (a course may go from absent to any recorded percent),
\* the level of the subskill never moves to a lower level
C30_LevelNeverDrops ==
    [][level_rank(skills_status'.m.level.s)
          >= level_rank(skills_status.m.level.s)]_vars

====
